---- MODULE Spec2Model ----
(***************************************************************************)
(* A model of simple-redis: the RESP wire codec (the hand-written decoder  *)
(* of src/resp and the combinator decoder of src/respv2), the stream       *)
(* framer and connection handler of src/network.rs, the command model of   *)
(* src/cmd and the store of src/backend.                                   *)
(*                                                                         *)
(* A byte is a one-character string; the token "FF" stands for one byte    *)
(* that is not valid UTF-8.  A buffer is a sequence of bytes; an offset    *)
(* into one is 0-based as in the source.                                   *)
(***************************************************************************)
EXTENDS Integers, Sequences, FiniteSets, TLC

\* ------------------------------------------------------------------ bytes

CR == "\r"
LF == "\n"
CRLF == <<CR, LF>>
CRLF_LEN == Len(CRLF)

Digits == <<"0", "1", "2", "3", "4", "5", "6", "7", "8", "9">>

IsDigit(ch) == \E i \in 1..10 : Digits[i] = ch

DigitVal(ch) == (CHOOSE i \in 1..10 : Digits[i] = ch) - 1

\* The byte values of the bytes the model uses (for the orderings the code
\* takes on strings: BTreeMap keys, sort_by on field names).
Ascii ==
  ("\n" :> 10) @@ ("\r" :> 13) @@ ("!" :> 33) @@ ("#" :> 35) @@ ("$" :> 36)
  @@ ("%" :> 37) @@ ("*" :> 42) @@ ("+" :> 43) @@ ("," :> 44) @@ ("-" :> 45)
  @@ ("0" :> 48) @@ ("1" :> 49) @@ ("2" :> 50) @@ ("3" :> 51) @@ ("4" :> 52)
  @@ ("5" :> 53) @@ ("6" :> 54) @@ ("7" :> 55) @@ ("8" :> 56) @@ ("9" :> 57)
  @@ (":" :> 58) @@ ("A" :> 65) @@ ("C" :> 67) @@ ("D" :> 68) @@ ("E" :> 69)
  @@ ("G" :> 71) @@ ("H" :> 72) @@ ("K" :> 75) @@ ("M" :> 77) @@ ("O" :> 79)
  @@ ("S" :> 83) @@ ("T" :> 84) @@ ("_" :> 95)
  @@ ("a" :> 97) @@ ("b" :> 98) @@ ("c" :> 99) @@ ("d" :> 100) @@ ("e" :> 101)
  @@ ("f" :> 102) @@ ("g" :> 103) @@ ("h" :> 104) @@ ("i" :> 105)
  @@ ("k" :> 107) @@ ("l" :> 108) @@ ("m" :> 109) @@ ("o" :> 111)
  @@ ("p" :> 112) @@ ("r" :> 114) @@ ("s" :> 115) @@ ("t" :> 116)
  @@ ("v" :> 118) @@ ("x" :> 120) @@ ("~" :> 126) @@ ("FF" :> 255)

\* u8::to_ascii_lowercase, <[u8]>::to_ascii_lowercase.
to_ascii_lowercase_byte(b) ==
  IF b \in DOMAIN Ascii /\ Ascii[b] >= 65 /\ Ascii[b] <= 90
  THEN CHOOSE c \in DOMAIN Ascii : Ascii[c] = Ascii[b] + 32
  ELSE b

to_ascii_lowercase(s) == [i \in 1..Len(s) |-> to_ascii_lowercase_byte(s[i])]

\* String::from_utf8 succeeds.
is_utf8(s) == \A i \in 1..Len(s) : s[i] # "FF"

Slice(buf, from) == SubSeq(buf, from + 1, Len(buf))

Take(buf, n) == SubSeq(buf, 1, n)

StartsWith(buf, p) == Len(buf) >= Len(p) /\ Take(buf, Len(p)) = p

\* String::from_utf8_lossy: a byte that is not valid UTF-8 becomes U+FFFD,
\* which is the three bytes EF BF BD.
RECURSIVE from_utf8_lossy(_)
from_utf8_lossy(s) ==
  IF s = <<>> THEN <<>>
  ELSE (IF Head(s) = "FF" THEN <<"EF", "BF", "BD">> ELSE <<Head(s)>>)
       \o from_utf8_lossy(Tail(s))

\* format!("{}", n) for an integer.
RECURSIVE NatDigits(_)
NatDigits(n) ==
  IF n < 10 THEN <<Digits[n + 1]>>
  ELSE NatDigits(n \div 10) \o <<Digits[(n % 10) + 1]>>

fmt_int(n) == IF n < 0 THEN <<"-">> \o NatDigits(-n) ELSE NatDigits(n)

RECURSIVE DigitsVal(_)
DigitsVal(s) ==
  IF s = <<>> THEN 0
  ELSE DigitsVal(SubSeq(s, 1, Len(s) - 1)) * 10 + DigitVal(s[Len(s)])

AllDigits(s) == s # <<>> /\ \A i \in 1..Len(s) : IsDigit(s[i])

\* str::parse::<usize>(): an optional '+', then one or more digits.
parse_usize(s) ==
  LET body == IF s # <<>> /\ Head(s) = "+" THEN Tail(s) ELSE s IN
  IF AllDigits(body) THEN [ok |-> TRUE, v |-> DigitsVal(body)]
  ELSE [ok |-> FALSE, v |-> 0]

\* The digits of i64::MAX, 2^63 - 1, and of the magnitude of i64::MIN, 2^63.
I64_MAX == <<"9", "2", "2", "3", "3", "7", "2", "0", "3", "6", "8", "5", "4", "7",
             "7", "5", "8", "0", "7">>
I64_MIN == <<"9", "2", "2", "3", "3", "7", "2", "0", "3", "6", "8", "5", "4", "7",
             "7", "5", "8", "0", "8">>

RECURSIVE StripZeros(_)
StripZeros(d) ==
  IF Len(d) > 1 /\ Head(d) = "0" THEN StripZeros(Tail(d)) ELSE d

\* a <= b, for runs of digits of one length.
RECURSIVE DigitsLeq(_, _)
DigitsLeq(a, b) ==
  IF a = <<>> THEN TRUE
  ELSE IF Head(a) # Head(b) THEN DigitVal(Head(a)) < DigitVal(Head(b))
  ELSE DigitsLeq(Tail(a), Tail(b))

\* The digits d, with `-` before them when neg, are an i64: no overflow in
\* the accumulation of from_str_radix.
FitsI64(d, neg) ==
  \/ Len(d) < Len(I64_MAX)
  \/ LET z == StripZeros(d) IN
       \/ Len(z) < Len(I64_MAX)
       \/ Len(z) = Len(I64_MAX) /\ DigitsLeq(z, IF neg THEN I64_MIN ELSE I64_MAX)

\* The i64 of the digits d: a number, or for a magnitude of more than nine
\* digits, which the integers of the checker do not hold, its sign and
\* digits.
i64_of(d, neg) ==
  IF Len(d) <= 9 THEN (IF neg THEN -DigitsVal(d) ELSE DigitsVal(d))
  ELSE LET z == StripZeros(d) IN
       IF Len(z) <= 9 THEN (IF neg THEN -DigitsVal(z) ELSE DigitsVal(z))
       ELSE [neg |-> neg, digits |-> z]

\* str::parse::<i64>(): an optional '+' or '-', then one or more digits;
\* a value out of the range of i64 is an error.
parse_i64(s) ==
  LET neg == s # <<>> /\ Head(s) = "-"
      body == IF s # <<>> /\ Head(s) \in {"+", "-"} THEN Tail(s) ELSE s IN
  IF AllDigits(body) /\ FitsI64(body, neg)
  THEN [ok |-> TRUE, v |-> i64_of(body, neg)]
  ELSE [ok |-> FALSE, v |-> 0]

\* ----------------------------------------------------------------- frames
\* RespFrame: one record shape for every variant; t is the variant, n the
\* number (Integer, Double) or truth value (Boolean: 1 / 0), s the bytes
\* (SimpleString, Error, BulkString), a the elements (Array, Set) or the
\* entries of a Map in key order (an entry: s the key, a = <<value>>).

Fr(t, n, s, a) == [t |-> t, n |-> n, s |-> s, a |-> a]

SimpleString(s) == Fr("SimpleString", 0, s, <<>>)
SimpleError(s) == Fr("Error", 0, s, <<>>)
Integer(n) == Fr("Integer", n, <<>>, <<>>)
BulkString(s) == Fr("BulkString", 0, s, <<>>)
RespArray(a) == Fr("Array", 0, <<>>, a)
RespNull == Fr("Null", 0, <<>>, <<>>)
Boolean(b) == Fr("Boolean", IF b THEN 1 ELSE 0, <<>>, <<>>)
Double(n) == Fr("Double", n, <<>>, <<>>)
MapEntry(k, v) == Fr("Entry", 0, k, <<v>>)
RespMap(entries) == Fr("Map", 0, <<>>, entries)
RespSet(a) == Fr("Set", 0, <<>>, a)

NoFrame == Fr("None", 0, <<>>, <<>>)

\* ---------------------------------------------------------------- encode

RECURSIVE RespFrame_encode(_)

RECURSIVE encode_all(_)
encode_all(fs) ==
  IF fs = <<>> THEN <<>>
  ELSE RespFrame_encode(Head(fs)) \o encode_all(Tail(fs))

SimpleString_encode(f) == <<"+">> \o f.s \o CRLF

SimpleError_encode(f) == <<"-">> \o f.s \o CRLF

\* As i64_encode below, with the `+` sign written for an integer that is
\* not negative.
i64_encode_signed(f) ==
  <<":">> \o (IF f.n < 0 THEN <<>> ELSE <<"+">>) \o fmt_int(f.n) \o CRLF

i64_encode(f) == <<":">> \o fmt_int(f.n) \o CRLF

BulkString_encode(f) ==
  LET len == IF Len(f.s) = 0 THEN -1 ELSE Len(f.s) IN
  <<"$">> \o fmt_int(len) \o CRLF
  \o (IF len > 0 THEN f.s \o CRLF ELSE <<>>)

\* As RespArray_encode below, with the length 0 written for an array of no
\* elements.
RespArray_encode_zero(f) ==
  <<"*">> \o fmt_int(Len(f.a)) \o CRLF \o encode_all(f.a)

RespArray_encode(f) ==
  LET len == IF Len(f.a) = 0 THEN -1 ELSE Len(f.a) IN
  <<"*">> \o fmt_int(len) \o CRLF
  \o (IF len > 0 THEN encode_all(f.a) ELSE <<>>)

RespNull_encode(f) == <<"_">> \o CRLF

bool_encode(f) == <<"#", IF f.n = 1 THEN "t" ELSE "f">> \o CRLF

f64_encode(f) == <<",">> \o fmt_int(f.n) \o CRLF

RECURSIVE encode_entries(_)
encode_entries(es) ==
  IF es = <<>> THEN <<>>
  ELSE SimpleString_encode(SimpleString(Head(es).s))
       \o RespFrame_encode(Head(es).a[1]) \o encode_entries(Tail(es))

RespMap_encode(f) ==
  <<"%">> \o fmt_int(Len(f.a)) \o CRLF \o encode_entries(f.a)

\* As RespSet_encode below, with the elements written from the last to the
\* first.
RespSet_encode_rev(f) ==
  <<"~">> \o fmt_int(Len(f.a)) \o CRLF
  \o encode_all([i \in 1..Len(f.a) |-> f.a[Len(f.a) + 1 - i]])

RespSet_encode(f) ==
  <<"~">> \o fmt_int(Len(f.a)) \o CRLF \o encode_all(f.a)

RespFrame_encode(f) ==
  CASE f.t = "SimpleString" -> SimpleString_encode(f)
    [] f.t = "Error" -> SimpleError_encode(f)
    [] f.t = "Integer" -> i64_encode(f)
    [] f.t = "BulkString" -> BulkString_encode(f)
    [] f.t = "Array" -> RespArray_encode(f)
    [] f.t = "Null" -> RespNull_encode(f)
    [] f.t = "Boolean" -> bool_encode(f)
    [] f.t = "Double" -> f64_encode(f)
    [] f.t = "Map" -> RespMap_encode(f)
    [] f.t = "Set" -> RespSet_encode(f)

\* ------------------------------------------- resp: the hand-written decoder
\* A result is [st, f, rest, n]: st is "ok", "notcomplete"
\* (RespError::NotComplete), "error" (any other RespError) or "panic"; f the
\* frame, rest the buffer the call leaves behind, n a length.

Res(st, f, rest, n) == [st |-> st, f |-> f, rest |-> rest, n |-> n]

\* `let x = v;` followed by K, which reads x.
Let(v, K(_)) == K(v)

\* find_crlf: the offset of the nth "\r\n" at offset 1 or later, -1 for None.
\* Its range 1..buf.len() - 1 underflows on an empty buffer: -2 for the panic.
find_crlf(buf, nth) ==
  LET hits == {i \in 1..(Len(buf) - 2) : buf[i + 1] = CR /\ buf[i + 2] = LF} IN
  IF Len(buf) = 0 THEN -2
  ELSE IF Cardinality(hits) < nth THEN -1
  ELSE CHOOSE i \in hits : Cardinality({j \in hits : j < i}) = nth - 1

extract_simple_frame_data(buf, prefix) ==
  IF Len(buf) < 3 THEN Res("notcomplete", NoFrame, buf, 0)
  ELSE IF ~StartsWith(buf, prefix) THEN Res("error", NoFrame, buf, 0)
  ELSE Let(find_crlf(buf, 1), LAMBDA end :
         IF end = -2 THEN Res("panic", NoFrame, buf, 0)
         ELSE IF end = -1 THEN Res("notcomplete", NoFrame, buf, 0)
         ELSE Res("ok", NoFrame, buf, end))

extract_fixed_data(buf, expect) ==
  IF Len(buf) < Len(expect) THEN Res("notcomplete", NoFrame, buf, 0)
  ELSE IF ~StartsWith(buf, expect) THEN Res("error", NoFrame, buf, 0)
  ELSE Res("ok", NoFrame, Slice(buf, Len(expect)), 0)

\* parse_length: [st, end, len]; the length is parsed as a usize.
parse_length(buf, prefix) ==
  Let(extract_simple_frame_data(buf, prefix), LAMBDA e :
    IF e.st # "ok" THEN [st |-> e.st, end |-> 0, len |-> 0]
    ELSE Let(parse_usize(from_utf8_lossy(SubSeq(buf, Len(prefix) + 1, e.n))),
             LAMBDA p :
               IF p.ok THEN [st |-> "ok", end |-> e.n, len |-> p.v]
               ELSE [st |-> "error", end |-> e.n, len |-> 0]))

\* The expect_length of a frame that is one line: end + CRLF_LEN.
line_length(buf, prefix) ==
  Let(extract_simple_frame_data(buf, prefix), LAMBDA e :
    IF e.st # "ok" THEN e ELSE Res("ok", NoFrame, buf, e.n + CRLF_LEN))

RECURSIVE RespFrame_expect_length(_)
RECURSIVE RespFrame_decode(_)

SimpleString_expect_length(buf) == line_length(buf, <<"+">>)

\* calc_total_length for "*" and "~": sum the elements' expected lengths;
\* &data[length..] panics when length is more than what is left.
RECURSIVE sum_lengths(_, _, _)
sum_lengths(data, len, total) ==
  IF len = 0 THEN Res("ok", NoFrame, data, total)
  ELSE Let(RespFrame_expect_length(data), LAMBDA l :
         IF l.st # "ok" THEN Res(l.st, NoFrame, data, 0)
         ELSE IF l.n > Len(data) THEN Res("panic", NoFrame, data, 0)
         ELSE sum_lengths(Slice(data, l.n), len - 1, total + l.n))

\* calc_total_length for "%": a SimpleString key, then a frame, per entry.
RECURSIVE sum_entry_lengths(_, _, _)
sum_entry_lengths(data, len, total) ==
  IF len = 0 THEN Res("ok", NoFrame, data, total)
  ELSE Let(SimpleString_expect_length(data), LAMBDA k :
         IF k.st # "ok" THEN Res(k.st, NoFrame, data, 0)
         ELSE IF k.n > Len(data) THEN Res("panic", NoFrame, data, 0)
         ELSE Let(RespFrame_expect_length(Slice(data, k.n)), LAMBDA l :
                IF l.st # "ok" THEN Res(l.st, NoFrame, data, 0)
                ELSE IF l.n > Len(data) - k.n THEN Res("panic", NoFrame, data, 0)
                ELSE sum_entry_lengths(Slice(data, k.n + l.n), len - 1,
                                       total + k.n + l.n)))

calc_total_length(buf, end, len, prefix) ==
  Let(IF prefix \in {<<"*">>, <<"~">>}
      THEN sum_lengths(Slice(buf, end + CRLF_LEN), len, end + CRLF_LEN)
      ELSE IF prefix = <<"%">>
      THEN sum_entry_lengths(Slice(buf, end + CRLF_LEN), len, end + CRLF_LEN)
      ELSE Res("ok", NoFrame, buf, len + CRLF_LEN),
      LAMBDA r : Res(r.st, NoFrame, buf, r.n))

\* The loop `for _ in 0..len { frames.push(RespFrame::decode(buf)?) }`.
RECURSIVE decode_frames(_, _, _)
decode_frames(buf, len, acc) ==
  IF len = 0 THEN [st |-> "ok", fs |-> acc, rest |-> buf]
  ELSE Let(RespFrame_decode(buf), LAMBDA r :
         IF r.st # "ok" THEN [st |-> r.st, fs |-> acc, rest |-> r.rest]
         ELSE decode_frames(r.rest, len - 1, Append(acc, r.f)))

SimpleString_decode(buf) ==
  Let(extract_simple_frame_data(buf, <<"+">>), LAMBDA e :
    IF e.st # "ok" THEN e
    ELSE Res("ok", SimpleString(from_utf8_lossy(SubSeq(buf, 2, e.n))),
             Slice(buf, e.n + CRLF_LEN), 0))

\* split_to(end + CRLF_LEN), then s.parse()?
i64_decode(buf) ==
  Let(extract_simple_frame_data(buf, <<":">>), LAMBDA e :
    IF e.st # "ok" THEN e
    ELSE Let(parse_i64(from_utf8_lossy(SubSeq(buf, 2, e.n))), LAMBDA p :
           IF p.ok THEN Res("ok", Integer(p.v), Slice(buf, e.n + CRLF_LEN), 0)
           ELSE Res("error", NoFrame, Slice(buf, e.n + CRLF_LEN), 0)))

i64_expect_length(buf) == line_length(buf, <<":">>)

bool_decode(buf) ==
  Let(extract_fixed_data(buf, <<"#", "t">> \o CRLF), LAMBDA t :
    IF t.st = "ok" THEN Res("ok", Boolean(TRUE), t.rest, 0)
    ELSE Let(extract_fixed_data(buf, <<"#", "f">> \o CRLF), LAMBDA f :
           IF f.st = "ok" THEN Res("ok", Boolean(FALSE), f.rest, 0) ELSE f))

bool_expect_length(buf) == Res("ok", NoFrame, buf, 4)

\* As BulkString_decode below, with the header taken off the buffer before
\* the data is known to be there.
BulkString_decode_eager(buf) ==
  Let(parse_length(buf, <<"$">>), LAMBDA p :
    IF p.st # "ok" THEN Res(p.st, NoFrame, buf, 0)
    ELSE IF p.len = 0
    THEN (IF p.end + CRLF_LEN + CRLF_LEN > Len(buf)
          THEN Res("panic", NoFrame, buf, 0)
          ELSE Res("ok", BulkString(<<>>),
                   Slice(buf, p.end + CRLF_LEN + CRLF_LEN), 0))
    ELSE IF Len(Slice(buf, p.end + CRLF_LEN)) < p.len + CRLF_LEN
    THEN Res("notcomplete", NoFrame, Slice(buf, p.end + CRLF_LEN), 0)
    ELSE Res("ok", BulkString(Take(Slice(buf, p.end + CRLF_LEN), p.len)),
             Slice(buf, p.end + CRLF_LEN + p.len + CRLF_LEN), 0))

\* BytesMut::advance(cnt) and split_to(at) panic past the end of the buffer.
BulkString_decode(buf) ==
  Let(parse_length(buf, <<"$">>), LAMBDA p :
    IF p.st # "ok" THEN Res(p.st, NoFrame, buf, 0)
    ELSE IF p.len = 0
    THEN (IF p.end + CRLF_LEN + CRLF_LEN > Len(buf)
          THEN Res("panic", NoFrame, buf, 0)
          ELSE Res("ok", BulkString(<<>>),
                   Slice(buf, p.end + CRLF_LEN + CRLF_LEN), 0))
    ELSE IF Len(Slice(buf, p.end + CRLF_LEN)) < p.len + CRLF_LEN
    THEN Res("notcomplete", NoFrame, buf, 0)
    ELSE Res("ok", BulkString(Take(Slice(buf, p.end + CRLF_LEN), p.len)),
             Slice(buf, p.end + CRLF_LEN + p.len + CRLF_LEN), 0))

BulkString_expect_length(buf) ==
  Let(parse_length(buf, <<"$">>), LAMBDA p :
    IF p.st # "ok" THEN Res(p.st, NoFrame, buf, 0)
    ELSE Res("ok", NoFrame, buf, p.end + CRLF_LEN + p.len + CRLF_LEN))

\* The expect_length of an aggregate: parse_length, then calc_total_length.
aggregate_expect_length(buf, prefix) ==
  Let(parse_length(buf, prefix), LAMBDA p :
    IF p.st # "ok" THEN Res(p.st, NoFrame, buf, 0)
    ELSE calc_total_length(buf, p.end, p.len, prefix))

RespArray_decode(buf) ==
  Let(parse_length(buf, <<"*">>), LAMBDA p :
    IF p.st # "ok" THEN Res(p.st, NoFrame, buf, 0)
    ELSE IF p.len = 0
    THEN (IF p.end + CRLF_LEN + CRLF_LEN > Len(buf)
          THEN Res("panic", NoFrame, buf, 0)
          ELSE Res("ok", RespArray(<<>>),
                   Slice(buf, p.end + CRLF_LEN + CRLF_LEN), 0))
    ELSE Let(calc_total_length(buf, p.end, p.len, <<"*">>), LAMBDA t :
           IF t.st # "ok" THEN Res(t.st, NoFrame, buf, 0)
           ELSE IF Len(buf) < t.n THEN Res("notcomplete", NoFrame, buf, 0)
           ELSE Let(decode_frames(Slice(buf, p.end + CRLF_LEN), p.len, <<>>), LAMBDA d :
                  IF d.st # "ok" THEN Res(d.st, NoFrame, d.rest, 0)
                  ELSE Res("ok", RespArray(d.fs), d.rest, 0))))

RespArray_expect_length(buf) == aggregate_expect_length(buf, <<"*">>)

RespSet_decode(buf) ==
  Let(parse_length(buf, <<"~">>), LAMBDA p :
    IF p.st # "ok" THEN Res(p.st, NoFrame, buf, 0)
    ELSE Let(calc_total_length(buf, p.end, p.len, <<"~">>), LAMBDA t :
           IF t.st # "ok" THEN Res(t.st, NoFrame, buf, 0)
           ELSE IF Len(buf) < t.n THEN Res("notcomplete", NoFrame, buf, 0)
           ELSE Let(decode_frames(Slice(buf, p.end + CRLF_LEN), p.len, <<>>), LAMBDA d :
                  IF d.st # "ok" THEN Res(d.st, NoFrame, d.rest, 0)
                  ELSE Res("ok", RespSet(d.fs), d.rest, 0))))

RespSet_expect_length(buf) == aggregate_expect_length(buf, <<"~">>)

\* The order of String keys (byte-wise lexicographic).
RECURSIVE StrLess(_, _)
StrLess(x, y) ==
  IF y = <<>> THEN FALSE
  ELSE IF x = <<>> THEN TRUE
  ELSE IF Head(x) = Head(y) THEN StrLess(Tail(x), Tail(y))
  ELSE Ascii[Head(x)] < Ascii[Head(y)]

\* BTreeMap::insert on the entries of a RespMap: key order, one entry per key.
btree_insert(entries, k, v) ==
  SelectSeq(entries, LAMBDA e : StrLess(e.s, k))
  \o <<MapEntry(k, v)>>
  \o SelectSeq(entries, LAMBDA e : StrLess(k, e.s))

\* The variants whose files are simple_error.rs, null.rs, double.rs and
\* map.rs, and the dispatch on the first byte (frame.rs): shaped like their
\* siblings above.
SimpleError_decode(buf) ==
  Let(extract_simple_frame_data(buf, <<"-">>), LAMBDA e :
    IF e.st # "ok" THEN e
    ELSE Res("ok", SimpleError(from_utf8_lossy(SubSeq(buf, 2, e.n))),
             Slice(buf, e.n + CRLF_LEN), 0))

SimpleError_expect_length(buf) == line_length(buf, <<"-">>)

RespNull_decode(buf) ==
  Let(extract_fixed_data(buf, <<"_">> \o CRLF), LAMBDA e :
    IF e.st = "ok" THEN Res("ok", RespNull, e.rest, 0) ELSE e)

RespNull_expect_length(buf) == Res("ok", NoFrame, buf, 3)

f64_decode(buf) ==
  Let(extract_simple_frame_data(buf, <<",">>), LAMBDA e :
    IF e.st # "ok" THEN e
    ELSE Let(parse_i64(from_utf8_lossy(SubSeq(buf, 2, e.n))), LAMBDA p :
           IF p.ok THEN Res("ok", Double(p.v), Slice(buf, e.n + CRLF_LEN), 0)
           ELSE Res("error", NoFrame, Slice(buf, e.n + CRLF_LEN), 0)))

f64_expect_length(buf) == line_length(buf, <<",">>)

RECURSIVE decode_entries(_, _, _)
decode_entries(buf, len, acc) ==
  IF len = 0 THEN [st |-> "ok", fs |-> acc, rest |-> buf]
  ELSE Let(SimpleString_decode(buf), LAMBDA k :
         IF k.st # "ok" THEN [st |-> k.st, fs |-> acc, rest |-> k.rest]
         ELSE Let(RespFrame_decode(k.rest), LAMBDA v :
                IF v.st # "ok" THEN [st |-> v.st, fs |-> acc, rest |-> v.rest]
                ELSE decode_entries(v.rest, len - 1,
                                    btree_insert(acc, k.f.s, v.f))))

RespMap_decode(buf) ==
  Let(parse_length(buf, <<"%">>), LAMBDA p :
    IF p.st # "ok" THEN Res(p.st, NoFrame, buf, 0)
    ELSE Let(calc_total_length(buf, p.end, p.len, <<"%">>), LAMBDA t :
           IF t.st # "ok" THEN Res(t.st, NoFrame, buf, 0)
           ELSE IF Len(buf) < t.n THEN Res("notcomplete", NoFrame, buf, 0)
           ELSE Let(decode_entries(Slice(buf, p.end + CRLF_LEN), p.len, <<>>), LAMBDA d :
                  IF d.st # "ok" THEN Res(d.st, NoFrame, d.rest, 0)
                  ELSE Res("ok", RespMap(d.fs), d.rest, 0))))

RespMap_expect_length(buf) == aggregate_expect_length(buf, <<"%">>)

\* The ten frame prefix bytes.
PrefixBytes == {"+", "-", ":", "$", "*", "_", "#", ",", "%", "~"}

RespFrame_decode(buf) ==
  IF buf = <<>> THEN Res("notcomplete", NoFrame, buf, 0)
  ELSE CASE Head(buf) = "+" -> SimpleString_decode(buf)
         [] Head(buf) = "-" -> SimpleError_decode(buf)
         [] Head(buf) = ":" -> i64_decode(buf)
         [] Head(buf) = "$" -> BulkString_decode(buf)
         [] Head(buf) = "*" -> RespArray_decode(buf)
         [] Head(buf) = "_" -> RespNull_decode(buf)
         [] Head(buf) = "#" -> bool_decode(buf)
         [] Head(buf) = "," -> f64_decode(buf)
         [] Head(buf) = "%" -> RespMap_decode(buf)
         [] Head(buf) = "~" -> RespSet_decode(buf)
         [] OTHER -> Res("error", NoFrame, buf, 0)

RespFrame_expect_length(buf) ==
  IF buf = <<>> THEN Res("notcomplete", NoFrame, buf, 0)
  ELSE CASE Head(buf) = "+" -> SimpleString_expect_length(buf)
         [] Head(buf) = "-" -> SimpleError_expect_length(buf)
         [] Head(buf) = ":" -> i64_expect_length(buf)
         [] Head(buf) = "$" -> BulkString_expect_length(buf)
         [] Head(buf) = "*" -> RespArray_expect_length(buf)
         [] Head(buf) = "_" -> RespNull_expect_length(buf)
         [] Head(buf) = "#" -> bool_expect_length(buf)
         [] Head(buf) = "," -> f64_expect_length(buf)
         [] Head(buf) = "%" -> RespMap_expect_length(buf)
         [] Head(buf) = "~" -> RespSet_expect_length(buf)
         [] OTHER -> Res("error", NoFrame, buf, 0)

\* ------------------------------------------ respv2: the combinator decoder
\* A parser takes the input and gives [ok, n, f, rest]: on success the
\* number or frame parsed and the input left; ok = FALSE is winnow's Err.

PR(ok, n, f, rest) == [ok |-> ok, n |-> n, f |-> f, rest |-> rest]

PFail(input) == PR(FALSE, 0, NoFrame, input)

\* take_until(0.., CRLF): the offset of the first "\r\n", -1 when there is none.
take_until_crlf(input) ==
  LET hits == {i \in 0..(Len(input) - 2) :
                 input[i + 1] = CR /\ input[i + 2] = LF} IN
  IF hits = {} THEN -1 ELSE CHOOSE i \in hits : \A j \in hits : i <= j

\* terminated(take_until(0.., CRLF), CRLF).value(())
simple_parser(input) ==
  Let(take_until_crlf(input), LAMBDA i :
    IF i < 0 THEN PFail(input)
    ELSE PR(TRUE, 0, NoFrame, Slice(input, i + CRLF_LEN)))

\* digit1: the length of the longest run of digits at the front.
RECURSIVE digit1(_)
digit1(input) ==
  IF input # <<>> /\ IsDigit(Head(input)) THEN 1 + digit1(Tail(input)) ELSE 0

\* terminated(digit1.parse_to(), CRLF), then sign * v: the digits are
\* parsed to an i64 without their sign, so they have to fit one as a
\* positive number.
integer_digits(input, sign, in1, d) ==
  IF d = 0 \/ ~FitsI64(Take(in1, d), FALSE) \/ ~StartsWith(Slice(in1, d), CRLF)
  THEN PFail(input)
  ELSE PR(TRUE, i64_of(Take(in1, d), sign = -1), NoFrame,
          Slice(in1, d + CRLF_LEN))

integer(input) ==
  IF input # <<>> /\ Head(input) \in {"+", "-"}
  THEN integer_digits(input, IF Head(input) = "-" THEN -1 ELSE 1,
                      Tail(input), digit1(Tail(input)))
  ELSE integer_digits(input, 1, input, digit1(input))

parse_string(input) ==
  Let(take_until_crlf(input), LAMBDA i :
    IF i < 0 THEN PFail(input)
    ELSE PR(TRUE, 0, SimpleString(from_utf8_lossy(Take(input, i))),
            Slice(input, i + CRLF_LEN)))

bulk_string(input) ==
  Let(integer(input), LAMBDA l :
    IF ~l.ok THEN PFail(input)
    ELSE IF l.n = 0 \/ l.n = -1 THEN PR(TRUE, 0, BulkString(<<>>), l.rest)
    ELSE IF l.n < -1 THEN PFail(input)
    ELSE IF Len(l.rest) < l.n \/ ~StartsWith(Slice(l.rest, l.n), CRLF)
    THEN PFail(input)
    ELSE PR(TRUE, 0, BulkString(Take(l.rest, l.n)), Slice(l.rest, l.n + CRLF_LEN)))

bulk_string_len(input) ==
  Let(integer(input), LAMBDA l :
    IF ~l.ok THEN PFail(input)
    ELSE IF l.n = 0 \/ l.n = -1 THEN PR(TRUE, 0, NoFrame, l.rest)
    ELSE IF l.n < -1 THEN PFail(input)
    ELSE IF Len(l.rest) < l.n \/ ~StartsWith(Slice(l.rest, l.n), CRLF)
    THEN PFail(input)
    ELSE PR(TRUE, 0, NoFrame, Slice(l.rest, l.n + CRLF_LEN)))

\* "_\r\n".value(RespNull), run after the dispatch has taken the first byte.
null(input) ==
  IF StartsWith(input, <<"_">> \o CRLF)
  THEN PR(TRUE, 0, RespNull, Slice(input, 1 + CRLF_LEN))
  ELSE PFail(input)

\* alt(('t', 'f')): one byte, the line end is left in the input.
boolean(input) ==
  IF input # <<>> /\ Head(input) \in {"t", "f"}
  THEN PR(TRUE, 0, Boolean(Head(input) = "t"), Tail(input))
  ELSE PFail(input)

\* terminated(float, CRLF), for the integer-valued floats of the model.
decimal(input) ==
  Let(integer(input), LAMBDA l :
    IF ~l.ok THEN PFail(input) ELSE PR(TRUE, 0, Double(l.n), l.rest))

RECURSIVE parse_frame(_)
RECURSIVE parse_frame_len(_)

\* for _ in 0..len { arr.push(parse_frame(input)?) }
RECURSIVE parse_frames(_, _, _)
parse_frames(input, len, acc) ==
  IF len = 0 THEN [ok |-> TRUE, fs |-> acc, rest |-> input]
  ELSE Let(parse_frame(input), LAMBDA r :
         IF ~r.ok THEN [ok |-> FALSE, fs |-> acc, rest |-> input]
         ELSE parse_frames(r.rest, len - 1, Append(acc, r.f)))

\* for _ in 0..len { parse_frame_len(input)? }
RECURSIVE parse_frame_lens(_, _)
parse_frame_lens(input, len) ==
  IF len = 0 THEN PR(TRUE, 0, NoFrame, input)
  ELSE Let(parse_frame_len(input), LAMBDA r :
         IF ~r.ok THEN PFail(input) ELSE parse_frame_lens(r.rest, len - 1))

array(input) ==
  Let(integer(input), LAMBDA l :
    IF ~l.ok THEN PFail(input)
    ELSE IF l.n = 0 \/ l.n = -1 THEN PR(TRUE, 0, RespArray(<<>>), l.rest)
    ELSE IF l.n < -1 THEN PFail(input)
    ELSE Let(parse_frames(l.rest, l.n, <<>>), LAMBDA r :
           IF ~r.ok THEN PFail(input) ELSE PR(TRUE, 0, RespArray(r.fs), r.rest)))

array_len(input) ==
  Let(integer(input), LAMBDA l :
    IF ~l.ok THEN PFail(input)
    ELSE IF l.n = 0 \/ l.n = -1 THEN PR(TRUE, 0, NoFrame, l.rest)
    ELSE IF l.n < -1 THEN PFail(input)
    ELSE parse_frame_lens(l.rest, l.n))

set(input) ==
  Let(integer(input), LAMBDA l :
    IF ~l.ok THEN PFail(input)
    ELSE IF l.n <= 0 THEN PFail(input)
    ELSE Let(parse_frames(l.rest, l.n, <<>>), LAMBDA r :
           IF ~r.ok THEN PFail(input) ELSE PR(TRUE, 0, RespSet(r.fs), r.rest)))

set_len(input) ==
  Let(integer(input), LAMBDA l :
    IF ~l.ok THEN PFail(input)
    ELSE IF l.n <= 0 THEN PFail(input)
    ELSE parse_frame_lens(l.rest, l.n))

\* key = preceded('+', parse_string); value = parse_frame; map.insert
RECURSIVE parse_entries(_, _, _)
parse_entries(input, len, acc) ==
  IF len = 0 THEN [ok |-> TRUE, fs |-> acc, rest |-> input]
  ELSE IF input = <<>> \/ Head(input) # "+"
  THEN [ok |-> FALSE, fs |-> acc, rest |-> input]
  ELSE Let(parse_string(Tail(input)), LAMBDA k :
         IF ~k.ok THEN [ok |-> FALSE, fs |-> acc, rest |-> input]
         ELSE Let(parse_frame(k.rest), LAMBDA v :
                IF ~v.ok THEN [ok |-> FALSE, fs |-> acc, rest |-> input]
                ELSE parse_entries(v.rest, len - 1,
                                   btree_insert(acc, k.f.s, v.f))))

\* a line up to "\r\n" for the key, then parse_frame_len for the value
RECURSIVE parse_entry_lens(_, _)
parse_entry_lens(input, len) ==
  IF len = 0 THEN PR(TRUE, 0, NoFrame, input)
  ELSE Let(simple_parser(input), LAMBDA k :
         IF ~k.ok THEN PFail(input)
         ELSE Let(parse_frame_len(k.rest), LAMBDA v :
                IF ~v.ok THEN PFail(input)
                ELSE parse_entry_lens(v.rest, len - 1)))

map(input) ==
  Let(integer(input), LAMBDA l :
    IF ~l.ok THEN PFail(input)
    ELSE IF l.n <= 0 THEN PFail(input)
    ELSE Let(parse_entries(l.rest, l.n, <<>>), LAMBDA r :
           IF ~r.ok THEN PFail(input) ELSE PR(TRUE, 0, RespMap(r.fs), r.rest)))

map_len(input) ==
  Let(integer(input), LAMBDA l :
    IF ~l.ok THEN PFail(input)
    ELSE IF l.n <= 0 THEN PFail(input)
    ELSE parse_entry_lens(l.rest, l.n))

simple_string(input) == parse_string(input)

error(input) ==
  Let(parse_string(input), LAMBDA r :
    IF ~r.ok THEN r ELSE PR(TRUE, 0, SimpleError(r.f.s), r.rest))

\* integer.map(RespFrame::Integer), the ":" arm of parse_frame.
integer_frame(input) ==
  Let(integer(input), LAMBDA r :
    IF ~r.ok THEN r ELSE PR(TRUE, 0, Integer(r.n), r.rest))

\* dispatch! {any; ...}: `any` takes the first byte, the arm parses the rest.
parse_frame_len(input) ==
  IF input = <<>> THEN PFail(input)
  ELSE CASE Head(input) \in {"+", "-", ":", "_", "#", ","} ->
              simple_parser(Tail(input))
         [] Head(input) = "$" -> bulk_string_len(Tail(input))
         [] Head(input) = "*" -> array_len(Tail(input))
         [] Head(input) = "%" -> map_len(Tail(input))
         [] Head(input) = "~" -> set_len(Tail(input))
         [] OTHER -> PFail(input)

parse_frame(input) ==
  IF input = <<>> THEN PFail(input)
  ELSE CASE Head(input) = "+" -> simple_string(Tail(input))
         [] Head(input) = "-" -> error(Tail(input))
         [] Head(input) = ":" -> integer_frame(Tail(input))
         [] Head(input) = "$" -> bulk_string(Tail(input))
         [] Head(input) = "*" -> array(Tail(input))
         [] Head(input) = "_" -> null(Tail(input))
         [] Head(input) = "#" -> boolean(Tail(input))
         [] Head(input) = "," -> decimal(Tail(input))
         [] Head(input) = "%" -> map(Tail(input))
         [] Head(input) = "~" -> set(Tail(input))
         [] OTHER -> PFail(input)

\* parse_frame_length: the bytes parse_frame_len consumed; any Err of the
\* parser is reported as RespError::NotComplete.
parse_frame_length(input) ==
  Let(parse_frame_len(input), LAMBDA ret :
    IF ret.ok THEN Res("ok", NoFrame, input, Len(input) - Len(ret.rest))
    ELSE Res("notcomplete", NoFrame, input, 0))

\* RespDecodeV2 for RespFrame (respv2/mod.rs): expect_length is
\* parse_frame_length; decode takes exactly expect_length bytes off the front
\* of the buffer and parses them with parse_frame.
RespFrameV2_expect_length(buf) == parse_frame_length(buf)

RespFrameV2_decode(buf) ==
  Let(RespFrameV2_expect_length(buf), LAMBDA l :
    IF l.st # "ok" THEN Res(l.st, NoFrame, buf, 0)
    ELSE Let(parse_frame(Take(buf, l.n)), LAMBDA r :
           IF r.ok THEN Res("ok", r.f, Slice(buf, l.n), l.n)
           ELSE Res("error", NoFrame, Slice(buf, l.n), l.n)))

\* --------------------------------------------------------------- backend
\* Backend: map, hmap and smap are functions on the keys present; a key is
\* a byte string.  None is NoFrame.

EmptyMap == [k \in {} |-> NoFrame]

Backend_new == [map |-> EmptyMap, hmap |-> EmptyMap, smap |-> EmptyMap]

\* DashMap::insert
insert(m, k, v) == [x \in DOMAIN m \cup {k} |-> IF x = k THEN v ELSE m[x]]

Backend_get(b, key) == IF key \in DOMAIN b.map THEN b.map[key] ELSE NoFrame

\* As Backend_set below, with the value of a key that is present kept.
Backend_set_absent(b, key, value) ==
  IF key \in DOMAIN b.map THEN b
  ELSE [b EXCEPT !.map = insert(b.map, key, value)]

Backend_set(b, key, value) == [b EXCEPT !.map = insert(b.map, key, value)]

Backend_hget(b, key, field) ==
  IF key \in DOMAIN b.hmap /\ field \in DOMAIN b.hmap[key]
  THEN b.hmap[key][field]
  ELSE NoFrame

\* As Backend_hset below, with a new hash put in the place of the one the
\* key has.
Backend_hset_fresh(b, key, field, value) ==
  [b EXCEPT !.hmap = insert(b.hmap, key, insert(EmptyMap, field, value))]

\* entry(key).or_default(), then insert(field, value)
Backend_hset(b, key, field, value) ==
  [b EXCEPT !.hmap =
     insert(b.hmap, key,
            insert(IF key \in DOMAIN b.hmap THEN b.hmap[key] ELSE EmptyMap,
                   field, value))]

\* As sadd_loop below, with `ret += 1` outside the `if`.
RECURSIVE sadd_loop_count(_, _, _)
sadd_loop_count(entry, values, ret) ==
  IF values = <<>> THEN [entry |-> entry, ret |-> ret]
  ELSE IF \E i \in 1..Len(entry) :
            RespFrame_encode(entry[i]) = RespFrame_encode(Head(values))
  THEN sadd_loop_count(entry, Tail(values), ret + 1)
  ELSE sadd_loop_count(Append(entry, Head(values)), Tail(values), ret + 1)

\* As sadd_loop below, with the texts of the frames compared in the
\* place of their encodings.
RECURSIVE sadd_loop_text(_, _, _)
sadd_loop_text(entry, values, ret) ==
  IF values = <<>> THEN [entry |-> entry, ret |-> ret]
  ELSE IF \E i \in 1..Len(entry) : entry[i].s = Head(values).s
  THEN sadd_loop_text(entry, Tail(values), ret)
  ELSE sadd_loop_text(Append(entry, Head(values)), Tail(values), ret + 1)

\* As sadd_loop below, with a value that is a member taken out of the list
\* and pushed at its end.
RECURSIVE sadd_loop_move(_, _, _)
sadd_loop_move(entry, values, ret) ==
  IF values = <<>> THEN [entry |-> entry, ret |-> ret]
  ELSE IF \E i \in 1..Len(entry) :
            RespFrame_encode(entry[i]) = RespFrame_encode(Head(values))
  THEN sadd_loop_move(
         Append(SelectSeq(entry, LAMBDA m : RespFrame_encode(m)
                                              # RespFrame_encode(Head(values))),
                Head(values)),
         Tail(values), ret)
  ELSE sadd_loop_move(Append(entry, Head(values)), Tail(values), ret + 1)

\* As sadd_loop below, with a new member put at the front of the list.
RECURSIVE sadd_loop_front(_, _, _)
sadd_loop_front(entry, values, ret) ==
  IF values = <<>> THEN [entry |-> entry, ret |-> ret]
  ELSE IF \E i \in 1..Len(entry) :
            RespFrame_encode(entry[i]) = RespFrame_encode(Head(values))
  THEN sadd_loop_front(entry, Tail(values), ret)
  ELSE sadd_loop_front(<<Head(values)>> \o entry, Tail(values), ret + 1)

\* The loop of sadd: a value is pushed when no member encodes as it does.
RECURSIVE sadd_loop(_, _, _)
sadd_loop(entry, values, ret) ==
  IF values = <<>> THEN [entry |-> entry, ret |-> ret]
  ELSE IF \E i \in 1..Len(entry) :
            RespFrame_encode(entry[i]) = RespFrame_encode(Head(values))
  THEN sadd_loop(entry, Tail(values), ret)
  ELSE sadd_loop(Append(entry, Head(values)), Tail(values), ret + 1)

\* [backend, ret]: entry(key).or_default(), then the loop under the lock.
Backend_sadd(b, key, values) ==
  Let(sadd_loop(IF key \in DOMAIN b.smap THEN b.smap[key] ELSE <<>>, values, 0),
      LAMBDA r : [backend |-> [b EXCEPT !.smap = insert(b.smap, key, r.entry)],
                  ret |-> r.ret])

\* ------------------------------------------------------------------- cmd

ZERO_ARG == 0
ONE_ARG == 1
TWO_ARGS == 2
THREE_ARGS == 3
ONE_CMD == 1

RESP_OK == SimpleString(<<"O", "K">>)

Equal(n) == [kind |-> "Equal", n |-> n]
GreaterAndEqual(n) == [kind |-> "GreaterAndEqual", n |-> n]

\* Command: one record shape for every variant.
Cmd(name, key, field, value, args) ==
  [name |-> name, key |-> key, field |-> field, value |-> value, args |-> args]

Echo(message) == Cmd("Echo", message, <<>>, NoFrame, <<>>)
Get(key) == Cmd("Get", key, <<>>, NoFrame, <<>>)
Set(key, value) == Cmd("Set", key, <<>>, value, <<>>)
HGet(key, field) == Cmd("HGet", key, field, NoFrame, <<>>)
HSet(key, field, value) == Cmd("HSet", key, field, value, <<>>)
HGetAll(key) == Cmd("HGetAll", key, <<>>, NoFrame, <<>>)
HMGet(key, fields) == Cmd("HMGet", key, <<>>, NoFrame, fields)
SAdd(key, values) == Cmd("SAdd", key, <<>>, NoFrame, values)
Sismember(key, value) == Cmd("Sismember", key, <<>>, value, <<>>)
SMembers(key) == Cmd("SMembers", key, <<>>, NoFrame, <<>>)
Unrecognized == Cmd("Unrecognized", <<>>, <<>>, NoFrame, <<>>)

\* Result<_, CommandError>: err is the error's text (its Display, without
\* the pieces format! fills in), names and n are the pieces.
COk(cmd) == [ok |-> TRUE, cmd |-> cmd, err |-> "", names |-> <<>>, n |-> 0]
CErr(e) == [ok |-> FALSE, cmd |-> Unrecognized, err |-> e, names |-> <<>>, n |-> 0]

\* format!("{} command must have exactly {} argument", names.join(" "), n_args)
ArgsErr(names, n) ==
  [ok |-> FALSE, cmd |-> Unrecognized,
   err |-> "Invalid argument: command must have exactly n argument",
   names |-> names, n |-> n]

\* The `?` after validate_command: r is what the rest of try_from gives.
checked(v, r) == IF v.ok THEN r ELSE v

\* As from_utf8 below, with the bytes taken for a String unchecked.
from_utf8_unchecked(strings, r) == r

\* The `?` after String::from_utf8 on each of the strings.
from_utf8(strings, r) ==
  IF \A i \in 1..Len(strings) : is_utf8(strings[i]) THEN r
  ELSE CErr("FromUtf8 error")

\* As validate_command below, with NArgs::Equal compared as
\* NArgs::GreaterAndEqual is.
validate_command_lax(value, names, args) ==
  IF Len(value) < args.n + 1
  THEN ArgsErr(names, args.n)
  ELSE IF \E i \in 1..Len(names) :
            /\ \A j \in 1..(i - 1) :
                 /\ value[j].t = "BulkString"
                 /\ to_ascii_lowercase(value[j].s) = names[j]
            /\ value[i].t # "BulkString"
  THEN CErr("Invalid argument: GET command must have a BulkString as the first argument")
  ELSE IF \E i \in 1..Len(names) : to_ascii_lowercase(value[i].s) # names[i]
  THEN CErr("Invalid argument: Invalid command: expected name")
  ELSE COk(Unrecognized)

validate_command(value, names, args) ==
  IF args.kind = "Equal" /\ Len(value) # args.n + 1
  THEN ArgsErr(names, args.n)
  ELSE IF args.kind = "GreaterAndEqual" /\ Len(value) < args.n + 1
  THEN ArgsErr(names, args.n)
  ELSE IF \E i \in 1..Len(names) :
            /\ \A j \in 1..(i - 1) :
                 /\ value[j].t = "BulkString"
                 /\ to_ascii_lowercase(value[j].s) = names[j]
            /\ value[i].t # "BulkString"
  THEN CErr("Invalid argument: GET command must have a BulkString as the first argument")
  ELSE IF \E i \in 1..Len(names) : to_ascii_lowercase(value[i].s) # names[i]
  THEN CErr("Invalid argument: Invalid command: expected name")
  ELSE COk(Unrecognized)

extract_args(value, start) == Slice(value, start)

IsBulk(args, i) == Len(args) >= i /\ args[i].t = "BulkString"

Echo_try_from(value) ==
  LET args == extract_args(value, ONE_CMD) IN
  checked(validate_command(value, <<<<"e", "c", "h", "o">>>>, Equal(ONE_ARG)),
          IF IsBulk(args, 1)
          THEN from_utf8(<<args[1].s>>, COk(Echo(args[1].s)))
          ELSE CErr("Invalid argument: Invalid key"))

Get_try_from(value) ==
  LET args == extract_args(value, ONE_CMD) IN
  checked(validate_command(value, <<<<"g", "e", "t">>>>, Equal(ONE_ARG)),
          IF IsBulk(args, 1)
          THEN from_utf8(<<args[1].s>>, COk(Get(args[1].s)))
          ELSE CErr("Invalid argument: Invalid key"))

Set_try_from(value) ==
  LET args == extract_args(value, ONE_CMD) IN
  checked(validate_command(value, <<<<"s", "e", "t">>>>, Equal(TWO_ARGS)),
          IF IsBulk(args, 1) /\ Len(args) >= 2
          THEN from_utf8(<<args[1].s>>, COk(Set(args[1].s, args[2])))
          ELSE CErr("Invalid argument: Invalid key or value"))

HGet_try_from(value) ==
  LET args == extract_args(value, ONE_CMD) IN
  checked(validate_command(value, <<<<"h", "g", "e", "t">>>>, Equal(TWO_ARGS)),
          IF IsBulk(args, 1) /\ IsBulk(args, 2)
          THEN from_utf8(<<args[1].s, args[2].s>>,
                         COk(HGet(args[1].s, args[2].s)))
          ELSE CErr("Invalid argument: Invalid key or field"))

HGetAll_try_from(value) ==
  LET args == extract_args(value, ONE_CMD) IN
  checked(validate_command(value, <<<<"h", "g", "e", "t", "a", "l", "l">>>>,
                           Equal(ONE_ARG)),
          IF IsBulk(args, 1)
          THEN from_utf8(<<args[1].s>>, COk(HGetAll(args[1].s)))
          ELSE CErr("Invalid argument: Invalid key"))

HSet_try_from(value) ==
  LET args == extract_args(value, ONE_CMD) IN
  checked(validate_command(value, <<<<"h", "s", "e", "t">>>>, Equal(THREE_ARGS)),
          IF IsBulk(args, 1) /\ IsBulk(args, 2) /\ Len(args) >= 3
          THEN from_utf8(<<args[1].s, args[2].s>>,
                         COk(HSet(args[1].s, args[2].s, args[3])))
          ELSE CErr("Invalid argument: Invalid key or field or value"))

\* while let Some(RespFrame::BulkString(field)) = args.next(): the fields
\* up to the first argument that is not a BulkString.
RECURSIVE leading_bulk(_)
leading_bulk(args) ==
  IF args = <<>> \/ Head(args).t # "BulkString" THEN <<>>
  ELSE <<Head(args).s>> \o leading_bulk(Tail(args))

HMGet_try_from(value) ==
  LET args == extract_args(value, ONE_CMD) IN
  checked(validate_command(value, <<<<"h", "m", "g", "e", "t">>>>,
                           GreaterAndEqual(TWO_ARGS)),
          IF IsBulk(args, 1)
          THEN from_utf8(leading_bulk(args),
                         COk(HMGet(args[1].s, leading_bulk(Tail(args)))))
          ELSE CErr("Invalid argument: Invalid key or fields"))

SAdd_try_from(value) ==
  LET args == extract_args(value, ONE_CMD) IN
  checked(validate_command(value, <<<<"s", "a", "d", "d">>>>,
                           GreaterAndEqual(TWO_ARGS)),
          IF IsBulk(args, 1)
          THEN from_utf8(<<args[1].s>>, COk(SAdd(args[1].s, Tail(args))))
          ELSE CErr("Invalid argument: Invalid key or values"))

Sismember_try_from(value) ==
  LET args == extract_args(value, ONE_CMD) IN
  checked(validate_command(
            value, <<<<"s", "i", "s", "m", "e", "m", "b", "e", "r">>>>,
            Equal(TWO_ARGS)),
          IF IsBulk(args, 1) /\ Len(args) >= 2
          THEN from_utf8(<<args[1].s>>, COk(Sismember(args[1].s, args[2])))
          ELSE CErr("Invalid argument: Invalid key or value"))

SMembers_try_from(value) ==
  LET args == extract_args(value, ONE_CMD) IN
  checked(validate_command(value, <<<<"s", "m", "e", "m", "b", "e", "r", "s">>>>,
                           Equal(ONE_ARG)),
          IF IsBulk(args, 1)
          THEN from_utf8(<<args[1].s>>, COk(SMembers(args[1].s)))
          ELSE CErr("Invalid argument: Invalid key"))

\* The names of the arms of the match in TryFrom<RespArray> for Command.
CommandNames ==
  { <<"e", "c", "h", "o">>, <<"g", "e", "t">>, <<"s", "e", "t">>,
    <<"h", "g", "e", "t">>, <<"h", "s", "e", "t">>,
    <<"h", "g", "e", "t", "a", "l", "l">>, <<"h", "m", "g", "e", "t">>,
    <<"s", "a", "d", "d">>, <<"s", "i", "s", "m", "e", "m", "b", "e", "r">>,
    <<"s", "m", "e", "m", "b", "e", "r", "s">> }

\* TryFrom<RespArray> for Command: the match is on the bytes as they are.
Command_try_from_RespArray(v) ==
  IF Len(v) >= 1 /\ v[1].t = "BulkString"
  THEN CASE v[1].s = <<"e", "c", "h", "o">> -> Echo_try_from(v)
         [] v[1].s = <<"g", "e", "t">> -> Get_try_from(v)
         [] v[1].s = <<"s", "e", "t">> -> Set_try_from(v)
         [] v[1].s = <<"h", "g", "e", "t">> -> HGet_try_from(v)
         [] v[1].s = <<"h", "s", "e", "t">> -> HSet_try_from(v)
         [] v[1].s = <<"h", "g", "e", "t", "a", "l", "l">> -> HGetAll_try_from(v)
         [] v[1].s = <<"h", "m", "g", "e", "t">> -> HMGet_try_from(v)
         [] v[1].s = <<"s", "a", "d", "d">> -> SAdd_try_from(v)
         [] v[1].s = <<"s", "i", "s", "m", "e", "m", "b", "e", "r">> ->
              Sismember_try_from(v)
         [] v[1].s = <<"s", "m", "e", "m", "b", "e", "r", "s">> ->
              SMembers_try_from(v)
         [] OTHER -> COk(Unrecognized)
  ELSE CErr("Invalid command: Command must have a BulkString as the first argument")

\* As Command_try_from below, with a frame that is not an Array, or an
\* Array without a BulkString first, taken for an unrecognized command.
Command_try_from_lenient(v) ==
  IF v.t = "Array" /\ Len(v.a) >= 1 /\ v.a[1].t = "BulkString"
  THEN Command_try_from_RespArray(v.a)
  ELSE COk(Unrecognized)

Command_try_from(v) ==
  IF v.t = "Array" THEN Command_try_from_RespArray(v.a)
  ELSE CErr("Invalid command: Command must be an array")

\* execute: [frame, backend], the reply and the store after it.
Done(frame, b) == [frame |-> frame, backend |-> b]

Some(v) == v # NoFrame

Echo_execute(cmd, b) == Done(BulkString(cmd.key), b)

Get_execute(cmd, b) ==
  IF Some(Backend_get(b, cmd.key)) THEN Done(Backend_get(b, cmd.key), b)
  ELSE Done(RespNull, b)

Set_execute(cmd, b) == Done(RESP_OK, Backend_set(b, cmd.key, cmd.value))

HGet_execute(cmd, b) ==
  IF Some(Backend_hget(b, cmd.key, cmd.field))
  THEN Done(Backend_hget(b, cmd.key, cmd.field), b)
  ELSE Done(RespNull, b)

HSet_execute(cmd, b) ==
  Done(RESP_OK, Backend_hset(b, cmd.key, cmd.field, cmd.value))

\* As sorted_pairs below, with the comparison of the sort turned round.
RECURSIVE sorted_pairs_rev(_, _)
sorted_pairs_rev(all, fields) ==
  IF fields = {} THEN <<>>
  ELSE LET k == CHOOSE x \in fields : \A y \in fields \ {x} : StrLess(y, x) IN
       <<BulkString(k), all[k]>> \o sorted_pairs_rev(all, fields \ {k})

\* data.sort_by(|a, b| a.0.cmp(&b.0)), then the flat_map into [key, value].
RECURSIVE sorted_pairs(_, _)
sorted_pairs(all, fields) ==
  IF fields = {} THEN <<>>
  ELSE LET k == CHOOSE x \in fields : \A y \in fields \ {x} : StrLess(x, y) IN
       <<BulkString(k), all[k]>> \o sorted_pairs(all, fields \ {k})

\* As HGetAll_execute below, with the hash of the key taken by
\* entry(key).or_default().
HGetAll_execute_create(cmd, b) ==
  IF cmd.key \in DOMAIN b.hmap
  THEN Done(RespArray(sorted_pairs(b.hmap[cmd.key], DOMAIN b.hmap[cmd.key])), b)
  ELSE Done(RespArray(<<>>), [b EXCEPT !.hmap = insert(b.hmap, cmd.key, EmptyMap)])

\* The HGetAll a request is parsed to has sort = true.
HGetAll_execute(cmd, b) ==
  IF cmd.key \in DOMAIN b.hmap
  THEN Done(RespArray(sorted_pairs(b.hmap[cmd.key], DOMAIN b.hmap[cmd.key])), b)
  ELSE Done(RespArray(<<>>), b)

HMGet_execute(cmd, b) ==
  Done(RespArray([i \in 1..Len(cmd.args) |->
                    IF Some(Backend_hget(b, cmd.key, cmd.args[i]))
                    THEN Backend_hget(b, cmd.key, cmd.args[i])
                    ELSE RespNull]), b)

SAdd_execute(cmd, b) ==
  Let(Backend_sadd(b, cmd.key, cmd.args),
      LAMBDA r : Done(Integer(r.ret), r.backend))

\* As Sismember_execute below, with the texts of the frames compared in
\* the place of their encodings.
Sismember_execute_text(cmd, b) ==
  IF cmd.key \notin DOMAIN b.smap THEN Done(Integer(0), b)
  ELSE IF \E i \in 1..Len(b.smap[cmd.key]) : b.smap[cmd.key][i].s = cmd.value.s
  THEN Done(Integer(1), b)
  ELSE Done(Integer(0), b)

Sismember_execute(cmd, b) ==
  IF cmd.key \notin DOMAIN b.smap THEN Done(Integer(0), b)
  ELSE IF \E i \in 1..Len(b.smap[cmd.key]) :
            RespFrame_encode(b.smap[cmd.key][i]) = RespFrame_encode(cmd.value)
  THEN Done(Integer(1), b)
  ELSE Done(Integer(0), b)

\* As SMembers_execute below, with the members collected from the last
\* to the first.
SMembers_execute_rev(cmd, b) ==
  IF cmd.key \notin DOMAIN b.smap THEN Done(RespArray(<<>>), b)
  ELSE Done(RespArray([i \in 1..Len(b.smap[cmd.key]) |->
                         b.smap[cmd.key][Len(b.smap[cmd.key]) + 1 - i]]), b)

SMembers_execute(cmd, b) ==
  IF cmd.key \notin DOMAIN b.smap THEN Done(RespArray(<<>>), b)
  ELSE Done(RespArray(b.smap[cmd.key]), b)

\* As Unrecognized_execute below, with Null for the acknowledgment.
Unrecognized_execute_null(cmd, b) == Done(RespNull, b)

Unrecognized_execute(cmd, b) == Done(RESP_OK, b)

\* enum_dispatch(CommandExecutor)
Command_execute(cmd, b) ==
  CASE cmd.name = "Echo" -> Echo_execute(cmd, b)
    [] cmd.name = "Get" -> Get_execute(cmd, b)
    [] cmd.name = "Set" -> Set_execute(cmd, b)
    [] cmd.name = "HGet" -> HGet_execute(cmd, b)
    [] cmd.name = "HSet" -> HSet_execute(cmd, b)
    [] cmd.name = "HGetAll" -> HGetAll_execute(cmd, b)
    [] cmd.name = "HMGet" -> HMGet_execute(cmd, b)
    [] cmd.name = "SAdd" -> SAdd_execute(cmd, b)
    [] cmd.name = "Sismember" -> Sismember_execute(cmd, b)
    [] cmd.name = "SMembers" -> SMembers_execute(cmd, b)
    [] cmd.name = "Unrecognized" -> Unrecognized_execute(cmd, b)

\* ------------------------------------------------------------- the bounds

\* The most elements of an Array or Set, and entries of a Map, in CodecFrames.
MaxElems == 2

\* The most frames (or runs of malformed bytes) a peer writes in SpecConn.
MaxFrames == 2

\* The most requests the peers write, all connections together, in SpecServer.
MaxReqs == 3

\* The most calls of request_handler in SpecHash, SpecSet, SpecLock and
\* SpecMap.
MaxOps == 3

\* The most calls of request_handler in SpecCmd.
MaxCalls == 2

\* The most calls of request_handler in SpecLockFair.
MaxFair == 2

\* The shards of a DashMap in SpecLock.
Shards == 2

\* ------------------------------------------------------------- the state

Conns == {"c1", "c2"}

VARIABLES
  input,     \* SpecCodec: the buffer handed to the decoders
  origin,    \* SpecCodec: how it was built: [kind, f, tail]
  dec1,      \* SpecCodec: the result of resp's RespFrame::decode
  len1,      \* SpecCodec: the result of resp's RespFrame::expect_length
  dec2,      \* SpecCodec: the result of respv2's decode
  len2,      \* SpecCodec: the result of respv2's expect_length
  backend,   \* the store shared by the connections
  unread,    \* per connection: bytes the peer wrote, not yet read
  eof,       \* per connection: a read returned 0 bytes
  rbuf,      \* per connection: the read buffer of Framed
  readable,  \* per connection: Framed's is_readable
  pc,        \* per connection: where stream_handler is: "next" (at
             \* framed.next()), "request" (at request_handler), "send" (at
             \* framed.send()), "ok" / "err" (returned Ok(()) / Err(e))
  cur,       \* per connection: the frame of the request being handled
  resp,      \* per connection: the frame about to be sent
  written,   \* per connection: the bytes the Encoder wrote to the peer
  sent,      \* history, per connection: what the peer wrote, item by item
  requests,  \* history, per connection: the frames framed.next() gave
  replies,   \* history, per connection: the frames given to framed.send()
  log,       \* history: [conn, frame, reply] of every request_handler call
  shard_of,  \* SpecLock: the shard of smap the hash of each key selects
  shards,    \* SpecLock: per shard of smap, who holds its lock: [w, r]
  mutex,     \* SpecLock: per key, who holds the Mutex of its member list
  task,      \* SpecLock, SpecMap: per connection, where its command is:
             \* [at, frame, cmd, values, ret, began]
  rw         \* SpecMap: per lock of RwLocks, who holds it: [w, r]

codecVars == <<input, origin, dec1, len1, dec2, len2>>

connVars ==
  <<backend, unread, eof, rbuf, readable, pc, cur, resp, written, sent,
    requests, replies, log>>

lockVars == <<shard_of, shards, mutex, task, rw>>

vars == <<codecVars, connVars, lockVars>>

\* --------------------------------------------------------------- network

\* Encoder<RespFrame> for RespFrameCodec
Encoder_encode(item, dst) == dst \o RespFrame_encode(item)

\* Decoder for RespFrameCodec: Ok(Some(frame)), Ok(None) or Err(e).
Decoder_decode(src) ==
  Let(RespFrameV2_decode(src), LAMBDA r :
    IF r.st = "ok" THEN [st |-> "Some", f |-> r.f, rest |-> r.rest]
    ELSE IF r.st = "notcomplete"
    THEN [st |-> "None", f |-> NoFrame, rest |-> r.rest]
    ELSE [st |-> "Err", f |-> NoFrame, rest |-> r.rest])

\* request_handler: Command::try_from(frame)?, then cmd.execute(&backend).
request_handler(frame, b) ==
  Let(Command_try_from(frame), LAMBDA r :
    IF r.ok THEN [ok |-> TRUE, done |-> Command_execute(r.cmd, b), err |-> ""]
    ELSE [ok |-> FALSE, done |-> Done(NoFrame, b), err |-> r.err])

ConnInit ==
  /\ backend = Backend_new
  /\ unread = [c \in Conns |-> <<>>]
  /\ eof = [c \in Conns |-> FALSE]
  /\ rbuf = [c \in Conns |-> <<>>]
  /\ readable = [c \in Conns |-> FALSE]
  /\ pc = [c \in Conns |-> "next"]
  /\ cur = [c \in Conns |-> NoFrame]
  /\ resp = [c \in Conns |-> NoFrame]
  /\ written = [c \in Conns |-> <<>>]
  /\ sent = [c \in Conns |-> <<>>]
  /\ requests = [c \in Conns |-> <<>>]
  /\ replies = [c \in Conns |-> <<>>]
  /\ log = <<>>

\* The keys of the set commands in SpecLock.
LockKeys == {<<"s">>, <<"t">>}

\* The locks of SpecMap: of the shard of map the key selects, of the shard
\* of hmap the key selects, and of the shard of the hash the field selects.
RwLocks == {"map", "hmap", "fields"}

\* No command is under way and no lock is held.
NoTask ==
  [at |-> "idle", frame |-> NoFrame, cmd |-> Unrecognized, values |-> <<>>,
   ret |-> 0, began |-> 0]

LockIdle ==
  /\ shards = [s \in 1..Shards |-> [w |-> "free", r |-> {}]]
  /\ mutex = [k \in LockKeys |-> "free"]
  /\ task = [c \in Conns |-> NoTask]
  /\ rw = [l \in RwLocks |-> [w |-> "free", r |-> {}]]

\* framed.next() with nothing to decode: the transport gives n more bytes.
PollRead(c, n) ==
  /\ pc[c] = "next" /\ ~readable[c] /\ ~eof[c]
  /\ n >= 1 /\ n <= Len(unread[c])
  /\ rbuf' = [rbuf EXCEPT ![c] = rbuf[c] \o Take(unread[c], n)]
  /\ unread' = [unread EXCEPT ![c] = Slice(unread[c], n)]
  /\ readable' = [readable EXCEPT ![c] = TRUE]
  /\ UNCHANGED <<backend, eof, pc, cur, resp, written, sent, requests,
                 replies, log>>
  /\ UNCHANGED <<codecVars, lockVars>>

\* framed.next() with nothing to decode: the peer has shut down, the read
\* gives 0 bytes.
PollEof(c) ==
  /\ pc[c] = "next" /\ ~readable[c] /\ ~eof[c]
  /\ unread[c] = <<>>
  /\ eof' = [eof EXCEPT ![c] = TRUE]
  /\ readable' = [readable EXCEPT ![c] = TRUE]
  /\ UNCHANGED <<backend, unread, rbuf, pc, cur, resp, written, sent,
                 requests, replies, log>>
  /\ UNCHANGED <<codecVars, lockVars>>

\* framed.next() with a readable buffer: one call of the Decoder.
\* Some(Ok(frame)) goes on to request_handler; Some(Err(e)) returns Err(e);
\* Ok(None) waits for bytes, or at the end of the stream is None (return
\* Ok(())) on an empty buffer and an error on bytes left over.
PollDecode_at(c, d) ==
  /\ pc' = [pc EXCEPT ![c] =
              IF d.st = "Some" THEN "request"
              ELSE IF d.st = "Err" THEN "err"
              ELSE IF ~eof[c] THEN "next"
              ELSE IF rbuf[c] = <<>> THEN "ok" ELSE "err"]
  /\ rbuf' = [rbuf EXCEPT ![c] = d.rest]
  /\ readable' = [readable EXCEPT ![c] = d.st = "Some"]
  /\ cur' = [cur EXCEPT ![c] = IF d.st = "Some" THEN d.f ELSE cur[c]]
  /\ requests' = [requests EXCEPT ![c] =
                    IF d.st = "Some" THEN Append(requests[c], d.f)
                    ELSE requests[c]]

PollDecode(c) ==
  /\ pc[c] = "next" /\ readable[c]
  /\ PollDecode_at(c, Decoder_decode(rbuf[c]))
  /\ UNCHANGED <<backend, unread, eof, resp, written, sent, replies, log>>
  /\ UNCHANGED <<codecVars, lockVars>>

\* As HandleRequest_at below, with the error of request_handler returned
\* by `?`.
HandleRequest_propagate(c, r) ==
  /\ resp' = [resp EXCEPT ![c] = IF r.ok THEN r.done.frame ELSE resp[c]]
  /\ backend' = r.done.backend
  /\ log' = Append(log, [conn |-> c, frame |-> cur[c],
                         reply |-> IF r.ok THEN r.done.frame ELSE NoFrame])
  /\ pc' = [pc EXCEPT ![c] = IF r.ok THEN "send" ELSE "err"]

\* match request_handler(request).await: Ok(response) => response.frame,
\* Err(e) => RespFrame::Error(e.to_string()).
HandleRequest_at(c, r) ==
  /\ resp' = [resp EXCEPT ![c] =
                IF r.ok THEN r.done.frame ELSE SimpleError(<<r.err>>)]
  /\ backend' = r.done.backend
  /\ log' = Append(log, [conn |-> c, frame |-> cur[c],
                         reply |-> IF r.ok THEN r.done.frame
                                   ELSE SimpleError(<<r.err>>)])
  /\ pc' = [pc EXCEPT ![c] = "send"]

HandleRequest(c) ==
  /\ pc[c] = "request"
  /\ HandleRequest_at(c, request_handler(cur[c], backend))
  /\ UNCHANGED <<unread, eof, rbuf, readable, cur, written, sent, requests,
                 replies>>
  /\ UNCHANGED <<codecVars, lockVars>>

\* As SendResponse, with an error reply logged and not sent.
SendResponse_quiet(c) ==
  /\ pc[c] = "send"
  /\ written' = [written EXCEPT ![c] =
                   IF resp[c].t = "Error" THEN written[c]
                   ELSE Encoder_encode(resp[c], written[c])]
  /\ replies' = [replies EXCEPT ![c] =
                   IF resp[c].t = "Error" THEN replies[c]
                   ELSE Append(replies[c], resp[c])]
  /\ pc' = [pc EXCEPT ![c] = "next"]
  /\ UNCHANGED <<backend, unread, eof, rbuf, readable, cur, resp, sent,
                 requests, log>>
  /\ UNCHANGED <<codecVars, lockVars>>

\* framed.send(frame).await?, then back to the top of the loop.
SendResponse(c) ==
  /\ pc[c] = "send"
  /\ written' = [written EXCEPT ![c] = Encoder_encode(resp[c], written[c])]
  /\ replies' = [replies EXCEPT ![c] = Append(replies[c], resp[c])]
  /\ pc' = [pc EXCEPT ![c] = "next"]
  /\ UNCHANGED <<backend, unread, eof, rbuf, readable, cur, resp, sent,
                 requests, log>>
  /\ UNCHANGED <<codecVars, lockVars>>

\* ------------------------------------------------- the set commands, by step
\* The connections run on the threads of the runtime, so the set commands of
\* two connections interleave at the points where they take a lock.  A
\* reference into a DashMap holds the lock of the shard of its key: the
\* RefMut of entry(key).or_default() holds it exclusively, the Ref of
\* get(key) holds it shared.

\* The frames request_handler parses to SAdd, Sismember or SMembers.
IsSetCommand(f) ==
  /\ Command_try_from(f).ok
  /\ Command_try_from(f).cmd.name \in {"SAdd", "Sismember", "SMembers"}

\* The calls of request_handler begun: those ended and those under way.
Begun == Len(log) + Cardinality({c \in Conns : task[c].at # "idle"})

\* request_handler: Command::try_from(frame)?, up to the call of execute.
Begin(c, f) ==
  /\ task[c].at = "idle" /\ Begun < MaxOps /\ IsSetCommand(f)
  /\ Let(Command_try_from(f).cmd, LAMBDA cmd :
       task' = [task EXCEPT ![c] =
                  [at |-> IF cmd.name = "SAdd" THEN "entry" ELSE "get",
                   frame |-> f, cmd |-> cmd, values |-> cmd.args, ret |-> 0,
                   began |-> 0]])
  /\ UNCHANGED <<shard_of, shards, mutex, rw>>
  /\ UNCHANGED <<codecVars, connVars>>

\* The end of execute: the locks held are released and the frame is replied.
Return(c, frame) ==
  /\ log' = Append(log, [conn |-> c, frame |-> task[c].frame, reply |-> frame])
  /\ task' = [task EXCEPT ![c] = NoTask]
  /\ mutex' = [k \in LockKeys |-> IF mutex[k] = c THEN "free" ELSE mutex[k]]
  /\ shards' = [s \in 1..Shards |->
                  [w |-> IF shards[s].w = c THEN "free" ELSE shards[s].w,
                   r |-> shards[s].r \ {c}]]

\* sadd: self.smap.entry(key).or_default() waits for the lock of the shard
\* to be free of writers and readers and takes it exclusively.
SAddEntry(c) ==
  /\ task[c].at = "entry"
  /\ shards[shard_of[task[c].cmd.key]] = [w |-> "free", r |-> {}]
  /\ shards' = [shards EXCEPT ![shard_of[task[c].cmd.key]].w = c]
  /\ backend' = [backend EXCEPT !.smap =
                   IF task[c].cmd.key \in DOMAIN backend.smap THEN backend.smap
                   ELSE insert(backend.smap, task[c].cmd.key, <<>>)]
  /\ task' = [task EXCEPT ![c].at = "lock"]
  /\ UNCHANGED <<shard_of, mutex, rw>>
  /\ UNCHANGED <<unread, eof, rbuf, readable, pc, cur, resp, written, sent,
                 requests, replies, log>>
  /\ UNCHANGED codecVars

\* A panic on the thread of c while it holds the guard of the list (in encode
\* or push, say): the task of the connection ends without a reply, and the
\* guards are dropped as the stack unwinds, which releases the shard and
\* leaves the Mutex poisoned.
Panic(c) ==
  /\ task[c].at \in {"loop", "scan"}
  /\ mutex' = [mutex EXCEPT ![task[c].cmd.key] = "poisoned"]
  /\ shards' = [s \in 1..Shards |->
                  [w |-> IF shards[s].w = c THEN "free" ELSE shards[s].w,
                   r |-> shards[s].r \ {c}]]
  /\ task' = [task EXCEPT ![c] = NoTask]
  /\ UNCHANGED <<shard_of, rw>>
  /\ UNCHANGED <<codecVars, connVars>>

InternalServerError == "Internal server error"

\* As SAddLock below, with lock().unwrap(): the thread panics on a
\* poisoned Mutex.
SAddLock_unwrap(c) ==
  /\ task[c].at = "lock"
  /\ mutex[task[c].cmd.key] \notin Conns
  /\ IF mutex[task[c].cmd.key] = "poisoned"
     THEN /\ task' = [task EXCEPT ![c] = NoTask]
          /\ shards' = [s \in 1..Shards |->
                          [w |-> IF shards[s].w = c THEN "free" ELSE shards[s].w,
                           r |-> shards[s].r \ {c}]]
          /\ UNCHANGED <<mutex, log>>
     ELSE /\ mutex' = [mutex EXCEPT ![task[c].cmd.key] = c]
          /\ task' = [task EXCEPT ![c].at = "loop"]
          /\ UNCHANGED <<shards, log>>
  /\ UNCHANGED <<backend, unread, eof, rbuf, readable, pc, cur, resp, written,
                 sent, requests, replies>>
  /\ UNCHANGED <<shard_of, rw>>
  /\ UNCHANGED codecVars

\* sadd: key_entry.value().lock() waits for the Mutex of the list; on a
\* poisoned Mutex it is Err, sadd returns Err(InternalServerError) and
\* SAdd::execute replies the error's text as an Error.
SAddLock(c) ==
  /\ task[c].at = "lock"
  /\ mutex[task[c].cmd.key] \notin Conns
  /\ IF mutex[task[c].cmd.key] = "poisoned"
     THEN Return(c, SimpleError(<<InternalServerError>>))
     ELSE /\ mutex' = [mutex EXCEPT ![task[c].cmd.key] = c]
          /\ task' = [task EXCEPT ![c].at = "loop"]
          /\ UNCHANGED <<shards, log>>
  /\ UNCHANGED <<backend, unread, eof, rbuf, readable, pc, cur, resp, written,
                 sent, requests, replies>>
  /\ UNCHANGED <<shard_of, rw>>
  /\ UNCHANGED codecVars

\* As SAddPush below, with the value pushed whether or not a member
\* encodes as it does.
SAddPush_unscanned(c) ==
  /\ task[c].at = "loop" /\ task[c].values # <<>>
  /\ backend' = [backend EXCEPT !.smap[task[c].cmd.key] =
                   Append(backend.smap[task[c].cmd.key], Head(task[c].values))]
  /\ task' = [task EXCEPT ![c].values = Tail(task[c].values),
                          ![c].ret = task[c].ret + 1]
  /\ UNCHANGED <<shard_of, shards, mutex, rw>>
  /\ UNCHANGED <<unread, eof, rbuf, readable, pc, cur, resp, written, sent,
                 requests, replies, log>>
  /\ UNCHANGED codecVars

\* As SAddPush below, with the scan looking at the last member only.
SAddPush_last(c) ==
  /\ task[c].at = "loop" /\ task[c].values # <<>>
  /\ Let(backend.smap[task[c].cmd.key], LAMBDA entry :
       Let(sadd_loop(IF entry = <<>> THEN <<>> ELSE <<entry[Len(entry)]>>,
                     <<Head(task[c].values)>>, task[c].ret),
           LAMBDA r :
             /\ backend' = [backend EXCEPT !.smap[task[c].cmd.key] =
                              IF r.ret = task[c].ret THEN entry
                              ELSE Append(entry, Head(task[c].values))]
             /\ task' = [task EXCEPT ![c].values = Tail(task[c].values),
                                     ![c].ret = r.ret]))
  /\ UNCHANGED <<shard_of, shards, mutex, rw>>
  /\ UNCHANGED <<unread, eof, rbuf, readable, pc, cur, resp, written, sent,
                 requests, replies, log>>
  /\ UNCHANGED codecVars

\* sadd: one turn of `for v in values`, the scan and the push.
SAddPush(c) ==
  /\ task[c].at = "loop" /\ task[c].values # <<>>
  /\ Let(sadd_loop(backend.smap[task[c].cmd.key], <<Head(task[c].values)>>,
                   task[c].ret),
         LAMBDA r :
           /\ backend' = [backend EXCEPT !.smap[task[c].cmd.key] = r.entry]
           /\ task' = [task EXCEPT ![c].values = Tail(task[c].values),
                                   ![c].ret = r.ret])
  /\ UNCHANGED <<shard_of, shards, mutex, rw>>
  /\ UNCHANGED <<unread, eof, rbuf, readable, pc, cur, resp, written, sent,
                 requests, replies, log>>
  /\ UNCHANGED codecVars

\* As SAddReturn below, with the guard of the list never dropped: the Mutex
\* stays locked after the reply.
SAddReturn_held(c) ==
  /\ task[c].at = "loop" /\ task[c].values = <<>>
  /\ log' = Append(log, [conn |-> c, frame |-> task[c].frame,
                         reply |-> Integer(task[c].ret)])
  /\ task' = [task EXCEPT ![c] = NoTask]
  /\ shards' = [s \in 1..Shards |->
                  [w |-> IF shards[s].w = c THEN "free" ELSE shards[s].w,
                   r |-> shards[s].r \ {c}]]
  /\ UNCHANGED <<backend, unread, eof, rbuf, readable, pc, cur, resp, written,
                 sent, requests, replies>>
  /\ UNCHANGED <<shard_of, rw, mutex>>
  /\ UNCHANGED codecVars

\* sadd: Ok(ret), and SAdd::execute replies Integer(ret).
SAddReturn(c) ==
  /\ task[c].at = "loop" /\ task[c].values = <<>>
  /\ Return(c, Integer(task[c].ret))
  /\ UNCHANGED <<backend, unread, eof, rbuf, readable, pc, cur, resp, written,
                 sent, requests, replies>>
  /\ UNCHANGED <<shard_of, rw>>
  /\ UNCHANGED codecVars

\* Sismember and SMembers: backend.smap.get(&self.key) waits for the lock of
\* the shard to be free of a writer; None is replied to at once, Some is a
\* reference that holds the lock shared.
ReadGet(c) ==
  /\ task[c].at = "get"
  /\ shards[shard_of[task[c].cmd.key]].w = "free"
  /\ IF task[c].cmd.key \in DOMAIN backend.smap
     THEN /\ shards' = [shards EXCEPT ![shard_of[task[c].cmd.key]].r = @ \cup {c}]
          /\ task' = [task EXCEPT ![c].at = "rlock"]
          /\ UNCHANGED <<mutex, log>>
     ELSE Return(c, Command_execute(task[c].cmd, backend).frame)
  /\ UNCHANGED <<backend, unread, eof, rbuf, readable, pc, cur, resp, written,
                 sent, requests, replies>>
  /\ UNCHANGED <<shard_of, rw>>
  /\ UNCHANGED codecVars

\* Sismember and SMembers: entry.value().lock() waits for the Mutex; on a
\* poisoned Mutex it is Err and the text of InternalServerError is replied
\* as an Error.
ReadLock(c) ==
  /\ task[c].at = "rlock"
  /\ mutex[task[c].cmd.key] \notin Conns
  /\ IF mutex[task[c].cmd.key] = "poisoned"
     THEN Return(c, SimpleError(<<InternalServerError>>))
     ELSE /\ mutex' = [mutex EXCEPT ![task[c].cmd.key] = c]
          /\ task' = [task EXCEPT ![c].at = "scan"]
          /\ UNCHANGED <<shards, log>>
  /\ UNCHANGED <<backend, unread, eof, rbuf, readable, pc, cur, resp, written,
                 sent, requests, replies>>
  /\ UNCHANGED <<shard_of, rw>>
  /\ UNCHANGED codecVars

\* Sismember and SMembers: the scan or the copy of the list, and the reply.
ReadReturn(c) ==
  /\ task[c].at = "scan"
  /\ Return(c, Command_execute(task[c].cmd, backend).frame)
  /\ UNCHANGED <<backend, unread, eof, rbuf, readable, pc, cur, resp, written,
                 sent, requests, replies>>
  /\ UNCHANGED <<shard_of, rw>>
  /\ UNCHANGED codecVars

\* The next step of the set command of connection c.
SetStep(c) ==
  \/ SAddEntry(c)
  \/ SAddLock(c)
  \/ SAddPush(c)
  \/ SAddReturn(c)
  \/ ReadGet(c)
  \/ ReadLock(c)
  \/ ReadReturn(c)


\* ----------------------------------------- the map and hash commands, by step
\* Get, Set, HGet and HSet of two connections interleave at the points where
\* they take the lock of a shard.  All of them work on one key of map and on
\* one key and field of hmap, so one lock of each DashMap is at play.

\* The frames request_handler parses to Get, Set, HGet or HSet.
IsMapCommand(f) ==
  /\ Command_try_from(f).ok
  /\ Command_try_from(f).cmd.name \in {"Get", "Set", "HGet", "HSet"}

MapBegin(c, f) ==
  /\ task[c].at = "idle" /\ Begun < MaxOps /\ IsMapCommand(f)
  /\ Let(Command_try_from(f).cmd, LAMBDA cmd :
       task' = [task EXCEPT ![c] =
                  [at |-> CASE cmd.name = "Get" -> "mget"
                            [] cmd.name = "Set" -> "mset"
                            [] cmd.name = "HGet" -> "hget"
                            [] cmd.name = "HSet" -> "hset",
                   frame |-> f, cmd |-> cmd, values |-> <<>>, ret |-> 0,
                   began |-> Len(log)]])
  /\ UNCHANGED <<shard_of, shards, mutex, rw>>
  /\ UNCHANGED <<codecVars, connVars>>

\* The end of execute: the references are dropped, so their locks released,
\* and the frame is replied.  began is the number of calls that had ended
\* when this one began.
MapReturn(c, frame) ==
  /\ log' = Append(log, [conn |-> c, frame |-> task[c].frame, reply |-> frame,
                         began |-> task[c].began])
  /\ task' = [task EXCEPT ![c] = NoTask]
  /\ rw' = [l \in RwLocks |->
              [w |-> IF rw[l].w = c THEN "free" ELSE rw[l].w,
               r |-> rw[l].r \ {c}]]

\* The slot of a value while `value` is moved into it: a frame is several
\* words, and the first of them are written before the last.
half_written(old, value) == [old EXCEPT !.t = value.t, !.n = value.n]

\* As GetLock below, with the slot read without the lock of its shard.
GetLock_unlocked(c) ==
  /\ task[c].at = "mget"
  /\ IF task[c].cmd.key \in DOMAIN backend.map
     THEN /\ rw' = [rw EXCEPT !["map"].r = @ \cup {c}]
          /\ task' = [task EXCEPT ![c].at = "mread"]
          /\ UNCHANGED log
     ELSE MapReturn(c, Get_execute(task[c].cmd, backend).frame)
  /\ UNCHANGED <<backend, unread, eof, rbuf, readable, pc, cur, resp, written,
                 sent, requests, replies>>
  /\ UNCHANGED <<shard_of, shards, mutex>>
  /\ UNCHANGED codecVars

\* get: self.map.get(key) waits for the lock of the shard to be free of a
\* writer; None is Null at once, Some is a reference that holds the lock
\* shared.
GetLock(c) ==
  /\ task[c].at = "mget"
  /\ rw["map"].w = "free"
  /\ IF task[c].cmd.key \in DOMAIN backend.map
     THEN /\ rw' = [rw EXCEPT !["map"].r = @ \cup {c}]
          /\ task' = [task EXCEPT ![c].at = "mread"]
          /\ UNCHANGED log
     ELSE MapReturn(c, Get_execute(task[c].cmd, backend).frame)
  /\ UNCHANGED <<backend, unread, eof, rbuf, readable, pc, cur, resp, written,
                 sent, requests, replies>>
  /\ UNCHANGED <<shard_of, shards, mutex>>
  /\ UNCHANGED codecVars

\* get: v.value().clone(), and Get::execute replies the clone.
GetReturn(c) ==
  /\ task[c].at = "mread"
  /\ MapReturn(c, Get_execute(task[c].cmd, backend).frame)
  /\ UNCHANGED <<backend, unread, eof, rbuf, readable, pc, cur, resp, written,
                 sent, requests, replies>>
  /\ UNCHANGED <<shard_of, shards, mutex>>
  /\ UNCHANGED codecVars

\* set: self.map.insert(key, value) waits for the lock of the shard to be
\* free of writers and readers and takes it exclusively.
SetLock(c) ==
  /\ task[c].at = "mset"
  /\ rw["map"] = [w |-> "free", r |-> {}]
  /\ rw' = [rw EXCEPT !["map"].w = c]
  /\ task' = [task EXCEPT ![c].at = "mwrite"]
  /\ UNCHANGED <<shard_of, shards, mutex>>
  /\ UNCHANGED <<codecVars, connVars>>

\* insert: the value starts to be moved into the slot of a key that is
\* present; a key that is absent has no slot yet.
SetWrite(c) ==
  /\ task[c].at = "mwrite"
  /\ backend' = [backend EXCEPT !.map =
                   IF task[c].cmd.key \in DOMAIN backend.map
                   THEN insert(backend.map, task[c].cmd.key,
                               half_written(backend.map[task[c].cmd.key],
                                            task[c].cmd.value))
                   ELSE backend.map]
  /\ task' = [task EXCEPT ![c].at = "mdone"]
  /\ UNCHANGED <<shard_of, shards, mutex, rw>>
  /\ UNCHANGED <<unread, eof, rbuf, readable, pc, cur, resp, written, sent,
                 requests, replies, log>>
  /\ UNCHANGED codecVars

\* insert: the value is in its slot, the lock is released, and Set::execute
\* replies OK.
SetReturn(c) ==
  /\ task[c].at = "mdone"
  /\ backend' = Set_execute(task[c].cmd, backend).backend
  /\ MapReturn(c, Set_execute(task[c].cmd, backend).frame)
  /\ UNCHANGED <<unread, eof, rbuf, readable, pc, cur, resp, written, sent,
                 requests, replies>>
  /\ UNCHANGED <<shard_of, shards, mutex>>
  /\ UNCHANGED codecVars

\* hget: self.hmap.get(key) waits for the lock of the shard of hmap to be
\* free of a writer; None is Null at once, Some holds the lock shared.
HGetLock(c) ==
  /\ task[c].at = "hget"
  /\ rw["hmap"].w = "free"
  /\ IF task[c].cmd.key \in DOMAIN backend.hmap
     THEN /\ rw' = [rw EXCEPT !["hmap"].r = @ \cup {c}]
          /\ task' = [task EXCEPT ![c].at = "hfield"]
          /\ UNCHANGED log
     ELSE MapReturn(c, HGet_execute(task[c].cmd, backend).frame)
  /\ UNCHANGED <<backend, unread, eof, rbuf, readable, pc, cur, resp, written,
                 sent, requests, replies>>
  /\ UNCHANGED <<shard_of, shards, mutex>>
  /\ UNCHANGED codecVars

\* hget: v.get(&field) waits for the lock of the shard of the hash to be
\* free of a writer; None is Null at once, Some holds the lock shared.
HGetField(c) ==
  /\ task[c].at = "hfield"
  /\ rw["fields"].w = "free"
  /\ IF task[c].cmd.field \in DOMAIN backend.hmap[task[c].cmd.key]
     THEN /\ rw' = [rw EXCEPT !["fields"].r = @ \cup {c}]
          /\ task' = [task EXCEPT ![c].at = "hread"]
          /\ UNCHANGED log
     ELSE MapReturn(c, HGet_execute(task[c].cmd, backend).frame)
  /\ UNCHANGED <<backend, unread, eof, rbuf, readable, pc, cur, resp, written,
                 sent, requests, replies>>
  /\ UNCHANGED <<shard_of, shards, mutex>>
  /\ UNCHANGED codecVars

\* hget: v.value().clone(), and HGet::execute replies the clone.
HGetReturn(c) ==
  /\ task[c].at = "hread"
  /\ MapReturn(c, HGet_execute(task[c].cmd, backend).frame)
  /\ UNCHANGED <<backend, unread, eof, rbuf, readable, pc, cur, resp, written,
                 sent, requests, replies>>
  /\ UNCHANGED <<shard_of, shards, mutex>>
  /\ UNCHANGED codecVars

\* hset: self.hmap.entry(key).or_default() waits for the lock of the shard
\* of hmap to be free of writers and readers and takes it exclusively.
HSetEntry(c) ==
  /\ task[c].at = "hset"
  /\ rw["hmap"] = [w |-> "free", r |-> {}]
  /\ rw' = [rw EXCEPT !["hmap"].w = c]
  /\ backend' = [backend EXCEPT !.hmap =
                   IF task[c].cmd.key \in DOMAIN backend.hmap THEN backend.hmap
                   ELSE insert(backend.hmap, task[c].cmd.key, EmptyMap)]
  /\ task' = [task EXCEPT ![c].at = "hinsert"]
  /\ UNCHANGED <<shard_of, shards, mutex>>
  /\ UNCHANGED <<unread, eof, rbuf, readable, pc, cur, resp, written, sent,
                 requests, replies, log>>
  /\ UNCHANGED codecVars

\* hset: hmap.insert(field, value) waits for the lock of the shard of the
\* hash and takes it exclusively.
HSetLock(c) ==
  /\ task[c].at = "hinsert"
  /\ rw["fields"] = [w |-> "free", r |-> {}]
  /\ rw' = [rw EXCEPT !["fields"].w = c]
  /\ task' = [task EXCEPT ![c].at = "hwrite"]
  /\ UNCHANGED <<shard_of, shards, mutex>>
  /\ UNCHANGED <<codecVars, connVars>>

\* insert: the value starts to be moved into the slot of a field that is
\* present.
HSetWrite(c) ==
  /\ task[c].at = "hwrite"
  /\ backend' = [backend EXCEPT !.hmap[task[c].cmd.key] =
                   IF task[c].cmd.field \in DOMAIN @
                   THEN insert(@, task[c].cmd.field,
                               half_written(@[task[c].cmd.field],
                                            task[c].cmd.value))
                   ELSE @]
  /\ task' = [task EXCEPT ![c].at = "hdone"]
  /\ UNCHANGED <<shard_of, shards, mutex, rw>>
  /\ UNCHANGED <<unread, eof, rbuf, readable, pc, cur, resp, written, sent,
                 requests, replies, log>>
  /\ UNCHANGED codecVars

\* insert: the value is in its slot, the locks are released, and
\* HSet::execute replies OK.
HSetReturn(c) ==
  /\ task[c].at = "hdone"
  /\ backend' = HSet_execute(task[c].cmd, backend).backend
  /\ MapReturn(c, HSet_execute(task[c].cmd, backend).frame)
  /\ UNCHANGED <<unread, eof, rbuf, readable, pc, cur, resp, written, sent,
                 requests, replies>>
  /\ UNCHANGED <<shard_of, shards, mutex>>
  /\ UNCHANGED codecVars

\* -------------------------------------------- HGetAll and HMGet, by step
\* HGetAll and HMGet both call hgetall, which clones the hash of the key
\* under the reference of hmap.get(key), and answer from the clone.

\* The frames request_handler parses to HSet, HGetAll or HMGet.
IsHashCommand(f) ==
  /\ Command_try_from(f).ok
  /\ Command_try_from(f).cmd.name \in {"HSet", "HGetAll", "HMGet"}

\* request_handler up to the call of execute; values is the clone, empty so
\* far.
HashBegin(c, f) ==
  /\ task[c].at = "idle" /\ Begun < MaxOps /\ IsHashCommand(f)
  /\ Let(Command_try_from(f).cmd, LAMBDA cmd :
       task' = [task EXCEPT ![c] =
                  [at |-> IF cmd.name = "HSet" THEN "hset" ELSE "hall",
                   frame |-> f, cmd |-> cmd, values |-> EmptyMap, ret |-> 0,
                   began |-> Len(log)]])
  /\ UNCHANGED <<shard_of, shards, mutex, rw>>
  /\ UNCHANGED <<codecVars, connVars>>

\* As HAllLock below, with the clone made without the lock of the shard of
\* hmap.
HAllLock_unheld(c) ==
  /\ task[c].at = "hall"
  /\ IF task[c].cmd.key \in DOMAIN backend.hmap
     THEN /\ task' = [task EXCEPT ![c].at = "hclone"]
          /\ UNCHANGED <<rw, log>>
     ELSE MapReturn(c, Command_execute(task[c].cmd, backend).frame)
  /\ UNCHANGED <<backend, unread, eof, rbuf, readable, pc, cur, resp, written,
                 sent, requests, replies>>
  /\ UNCHANGED <<shard_of, shards, mutex>>
  /\ UNCHANGED codecVars

\* hgetall: self.hmap.get(key) waits for the lock of the shard of hmap to
\* be free of a writer; on None the command replies at once, Some is a
\* reference that holds the lock shared.
HAllLock(c) ==
  /\ task[c].at = "hall"
  /\ rw["hmap"].w = "free"
  /\ IF task[c].cmd.key \in DOMAIN backend.hmap
     THEN /\ rw' = [rw EXCEPT !["hmap"].r = @ \cup {c}]
          /\ task' = [task EXCEPT ![c].at = "hclone"]
          /\ UNCHANGED log
     ELSE MapReturn(c, Command_execute(task[c].cmd, backend).frame)
  /\ UNCHANGED <<backend, unread, eof, rbuf, readable, pc, cur, resp, written,
                 sent, requests, replies>>
  /\ UNCHANGED <<shard_of, shards, mutex>>
  /\ UNCHANGED codecVars

\* hgetall: v.clone() copies the hash entry by entry, each under the lock
\* of its shard of the hash, in the order of the iteration.
HAllClone(c) ==
  /\ task[c].at = "hclone"
  /\ rw["fields"].w = "free"
  /\ \E fd \in DOMAIN backend.hmap[task[c].cmd.key] \ DOMAIN task[c].values :
       task' = [task EXCEPT ![c].values =
                  insert(@, fd, backend.hmap[task[c].cmd.key][fd])]
  /\ UNCHANGED <<shard_of, shards, mutex, rw>>
  /\ UNCHANGED <<codecVars, connVars>>

\* hgetall: the clone is whole and the reference is dropped.
HAllCloned(c) ==
  /\ task[c].at = "hclone"
  /\ DOMAIN backend.hmap[task[c].cmd.key] \subseteq DOMAIN task[c].values
  /\ rw' = [rw EXCEPT !["hmap"].r = @ \ {c}]
  /\ task' = [task EXCEPT ![c].at = "hreply"]
  /\ UNCHANGED <<shard_of, shards, mutex>>
  /\ UNCHANGED <<codecVars, connVars>>

\* HGetAll::execute and HMGet::execute: the reply is made from the clone.
HAllReturn(c) ==
  /\ task[c].at = "hreply"
  /\ MapReturn(c, Command_execute(
                    task[c].cmd,
                    [backend EXCEPT !.hmap[task[c].cmd.key] = task[c].values]).frame)
  /\ UNCHANGED <<backend, unread, eof, rbuf, readable, pc, cur, resp, written,
                 sent, requests, replies>>
  /\ UNCHANGED <<shard_of, shards, mutex>>
  /\ UNCHANGED codecVars
\* ------------------------------------------------- the codec on its inputs
\* SpecCodec: a buffer is loaded (an encoded frame with or without bytes
\* after it, a strict prefix of one, or raw bytes) and the operations of the
\* two decoders are applied to it.

Unset == Res("unset", NoFrame, <<>>, 0)

LeafFrames ==
  { SimpleString(<<"O", "K">>), SimpleString(<<>>), SimpleError(<<"E">>),
    Integer(0), Integer(12), Integer(-1), BulkString(<<"a">>),
    BulkString(<<CR, LF>>), BulkString(<<>>), RespNull, Boolean(TRUE),
    Boolean(FALSE), Double(1) }

ElemFrames ==
  { BulkString(<<"a">>), BulkString(<<>>), Integer(12), Boolean(TRUE),
    RespNull }

ElemSeqs == UNION {[1..n -> ElemFrames] : n \in 0..MaxElems}

\* The Set of test_set_encode and test_set_decode.
TestSet ==
  RespSet(<<RespArray(<<Integer(1234), Boolean(TRUE)>>),
            BulkString(<<"w", "o", "r", "l", "d">>)>>)

NestedFrames ==
  { TestSet,
    RespSet(<<RespArray(<<Integer(12), Boolean(TRUE)>>), BulkString(<<"a">>)>>),
    RespArray(<<RespArray(<<>>), RespSet(<<BulkString(<<"a">>)>>)>>),
    RespArray(<<RespMap(<<MapEntry(<<"k">>, Integer(0))>>), Integer(0)>>) }

MapFrames ==
  {RespMap(<<>>)} \cup {RespMap(<<MapEntry(<<"k">>, v)>>) : v \in ElemFrames}
  \cup {RespMap(<<MapEntry(<<"a">>, BulkString(<<"a">>)), MapEntry(<<"k">>, v)>>) :
          v \in IF MaxElems >= 2 THEN ElemFrames ELSE {}}

CodecFrames ==
  LeafFrames \cup {RespArray(a) : a \in ElemSeqs}
  \cup {RespSet(a) : a \in ElemSeqs} \cup MapFrames \cup NestedFrames

\* Bytes after a frame: the start of a following frame.
Tails == {<<>>, <<"+", "O", "K", CR, LF>>, <<"$", "1">>}

\* Raw buffers: the zero-length wire forms, signed integers, and buffers no
\* appended byte can complete.
RawInputs ==
  { <<"$", "0", CR, LF, CR, LF>>, <<"*", "0", CR, LF>>,
    <<"*", "0", CR, LF, CR, LF>>, <<":", "+", "1", "2", CR, LF>>,
    <<"~", "2", CR, LF, "*", "2", CR, LF, ":", "+", "1", "2", "3", "4", CR, LF,
      "#", "t", CR, LF, "$", "5", CR, LF, "w", "o", "r", "l", "d", CR, LF>>,
    <<"x">>, <<"x", CR, LF>>, <<"!", "a", CR, LF>>,
    <<"$", "x", CR, LF>>, <<"$", "-", "2", CR, LF>>, <<"*", "x", CR, LF>>,
    <<"*", "-", "2", CR, LF>>, <<"~", "x", CR, LF>>, <<"%", "-", "2", CR, LF>> }

Idle == origin.kind = "none"

LoadFrame(f, t) ==
  /\ Idle
  /\ input' = RespFrame_encode(f) \o t
  /\ origin' = [kind |-> "frame", f |-> f, tail |-> t]
  /\ UNCHANGED <<dec1, len1, dec2, len2>>
  /\ UNCHANGED <<connVars, lockVars>>

LoadPrefix(f, n) ==
  /\ Idle
  /\ n < Len(RespFrame_encode(f))
  /\ input' = Take(RespFrame_encode(f), n)
  /\ origin' = [kind |-> "prefix", f |-> f, tail |-> <<>>]
  /\ UNCHANGED <<dec1, len1, dec2, len2>>
  /\ UNCHANGED <<connVars, lockVars>>

LoadRaw(r, t) ==
  /\ Idle
  /\ input' = r \o t
  /\ origin' = [kind |-> "raw", f |-> NoFrame, tail |-> t]
  /\ UNCHANGED <<dec1, len1, dec2, len2>>
  /\ UNCHANGED <<connVars, lockVars>>

Decode ==
  /\ ~Idle /\ dec1.st = "unset"
  /\ dec1' = RespFrame_decode(input)
  /\ UNCHANGED <<input, origin, len1, dec2, len2>>
  /\ UNCHANGED <<connVars, lockVars>>

ExpectLength ==
  /\ ~Idle /\ len1.st = "unset"
  /\ len1' = RespFrame_expect_length(input)
  /\ UNCHANGED <<input, origin, dec1, dec2, len2>>
  /\ UNCHANGED <<connVars, lockVars>>

DecodeV2 ==
  /\ ~Idle /\ dec2.st = "unset"
  /\ dec2' = RespFrameV2_decode(input)
  /\ UNCHANGED <<input, origin, dec1, len1, len2>>
  /\ UNCHANGED <<connVars, lockVars>>

ExpectLengthV2 ==
  /\ ~Idle /\ len2.st = "unset"
  /\ len2' = RespFrameV2_expect_length(input)
  /\ UNCHANGED <<input, origin, dec1, len1, dec2>>
  /\ UNCHANGED <<connVars, lockVars>>

Unload ==
  /\ ~Idle
  /\ input' = <<>>
  /\ origin' = [kind |-> "none", f |-> NoFrame, tail |-> <<>>]
  /\ dec1' = Unset /\ len1' = Unset /\ dec2' = Unset /\ len2' = Unset
  /\ UNCHANGED <<connVars, lockVars>>

CodecIdle ==
  /\ input = <<>>
  /\ origin = [kind |-> "none", f |-> NoFrame, tail |-> <<>>]
  /\ dec1 = Unset /\ len1 = Unset /\ dec2 = Unset /\ len2 = Unset

\* Outside SpecLock every key is taken to select the first shard.
LockInit == LockIdle /\ shard_of = [k \in LockKeys |-> 1]

CodecInit == CodecIdle /\ ConnInit /\ LockInit

CodecNext ==
  \/ \E f \in CodecFrames, t \in Tails : LoadFrame(f, t)
  \/ \E f \in CodecFrames :
       \E n \in 0..(Len(RespFrame_encode(f)) - 1) : LoadPrefix(f, n)
  \/ \E r \in RawInputs, t \in Tails : LoadRaw(r, t)
  \/ Decode
  \/ ExpectLength
  \/ DecodeV2
  \/ ExpectLengthV2
  \/ Unload

SpecCodec == CodecInit /\ [][CodecNext]_vars

\* SpecInt: the decoders on integers in their wire form, the least and the
\* greatest i64 among them, with and without a `+`; n is the i64 the digits
\* stand for.
IntCase(sign, digits, n) ==
  [bytes |-> <<":">> \o sign \o digits \o CRLF, n |-> n]

IntCases ==
  << IntCase(<<>>, <<"0">>, 0), IntCase(<<"+">>, <<"0">>, 0),
    IntCase(<<>>, <<"1", "2">>, 12), IntCase(<<"+">>, <<"1", "2">>, 12),
    IntCase(<<"-">>, <<"1", "2">>, -12),
    IntCase(<<>>, I64_MAX, [neg |-> FALSE, digits |-> I64_MAX]),
    IntCase(<<"+">>, I64_MAX, [neg |-> FALSE, digits |-> I64_MAX]),
    IntCase(<<"-">>, I64_MAX, [neg |-> TRUE, digits |-> I64_MAX]),
    IntCase(<<"-">>, I64_MIN, [neg |-> TRUE, digits |-> I64_MIN]) >>

IntNext ==
  \/ \E i \in 1..Len(IntCases), t \in Tails : LoadRaw(IntCases[i].bytes, t)
  \/ Decode
  \/ ExpectLength
  \/ DecodeV2
  \/ ExpectLengthV2
  \/ Unload

SpecInt == CodecInit /\ [][IntNext]_vars

\* ------------------------------------------ one connection, byte by byte
\* SpecConn: the peer of connection c1 writes a script (frames, or runs of
\* malformed bytes) and the transport hands it to the handler in chunks of
\* any sizes.

Request(words) == RespArray([i \in 1..Len(words) |-> BulkString(words[i])])

Item(f) == [kind |-> "frame", f |-> f, bytes |-> RespFrame_encode(f)]

RawItem(r) == [kind |-> "raw", f |-> NoFrame, bytes |-> r]

StreamFrames ==
  { Request(<<<<"e", "c", "h", "o">>, <<"a">>>>),
    Request(<<<<"E", "C", "H", "O">>, <<"a">>>>),
    Request(<<<<"g", "e", "t">>>>),
    Request(<<<<"s", "e", "t">>, <<"k">>, <<"v">>>>),
    Request(<<<<"g", "e", "t">>, <<"k">>>>),
    Integer(12),
    RespNull }

Malformed == { <<"x", CR, LF>>, <<"$", "-", "2", CR, LF>> }

StreamItems ==
  {Item(f) : f \in StreamFrames} \cup {RawItem(r) : r \in Malformed}

Scripts == UNION {[1..n -> StreamItems] : n \in 0..MaxFrames}

RECURSIVE script_bytes(_)
script_bytes(s) ==
  IF s = <<>> THEN <<>> ELSE Head(s).bytes \o script_bytes(Tail(s))

ScriptInit ==
  /\ CodecIdle
  /\ LockInit
  /\ \E s \in Scripts :
       /\ sent = [c \in Conns |-> IF c = "c1" THEN s ELSE <<>>]
       /\ unread = [c \in Conns |-> IF c = "c1" THEN script_bytes(s) ELSE <<>>]
  /\ pc = [c \in Conns |-> IF c = "c1" THEN "next" ELSE "ok"]
  /\ backend = Backend_new
  /\ eof = [c \in Conns |-> FALSE]
  /\ rbuf = [c \in Conns |-> <<>>]
  /\ readable = [c \in Conns |-> FALSE]
  /\ cur = [c \in Conns |-> NoFrame]
  /\ resp = [c \in Conns |-> NoFrame]
  /\ written = [c \in Conns |-> <<>>]
  /\ requests = [c \in Conns |-> <<>>]
  /\ replies = [c \in Conns |-> <<>>]
  /\ log = <<>>

ConnNext ==
  \/ \E c \in Conns : \E n \in 1..Len(unread[c]) : PollRead(c, n)
  \/ \E c \in Conns : PollEof(c)
  \/ \E c \in Conns : PollDecode(c)
  \/ \E c \in Conns : HandleRequest(c)
  \/ \E c \in Conns : SendResponse(c)

SpecConn == ScriptInit /\ [][ConnNext]_vars

\* -------------------------------------------- the server, frame by frame
\* SpecServer: the peers of the connections write requests, each after the
\* reply to its last one, and the transport hands every request over whole.

Requests ==
  { Request(<<<<"s", "e", "t">>, <<"k">>, <<"a">>>>),
    RespArray(<<BulkString(<<"s", "e", "t">>), BulkString(<<"k">>), Integer(12)>>),
    Request(<<<<"g", "e", "t">>, <<"k">>>>),
    Request(<<<<"s", "e", "t">>, <<"a">>, <<"a">>>>),
    Request(<<<<"g", "e", "t">>, <<"a">>>>),
    Request(<<<<"F", "O", "O">>, <<"k">>>>),
    RespArray(<<BulkString(<<"f", "o", "o">>), BulkString(<<"k">>),
                Integer(12), BulkString(<<"a">>)>>) }

RECURSIVE SumLen(_, _)
SumLen(f, S) ==
  IF S = {} THEN 0
  ELSE LET c == CHOOSE x \in S : TRUE IN Len(f[c]) + SumLen(f, S \ {c})

ClientWrite(c, f) ==
  /\ pc[c] = "next" /\ Len(replies[c]) = Len(sent[c])
  /\ SumLen(sent, Conns) < MaxReqs
  /\ unread' = [unread EXCEPT ![c] = unread[c] \o RespFrame_encode(f)]
  /\ sent' = [sent EXCEPT ![c] = Append(sent[c], Item(f))]
  /\ UNCHANGED <<backend, eof, rbuf, readable, pc, cur, resp, written,
                 requests, replies, log>>
  /\ UNCHANGED <<codecVars, lockVars>>

ServerInit == CodecIdle /\ ConnInit /\ LockInit

ServerNext ==
  \/ \E c \in Conns, f \in Requests : ClientWrite(c, f)
  \/ \E c \in Conns : PollRead(c, Len(unread[c]))
  \/ \E c \in Conns : PollDecode(c)
  \/ \E c \in Conns : HandleRequest(c)
  \/ \E c \in Conns : SendResponse(c)

SpecServer == ServerInit /\ [][ServerNext]_vars

\* SpecWire: as SpecServer, with requests whose replies are collections and
\* bulk strings that may be empty.
WireRequests ==
  { Request(<<<<"h", "g", "e", "t", "a", "l", "l">>, <<"h">>>>),
    Request(<<<<"s", "m", "e", "m", "b", "e", "r", "s">>, <<"s">>>>),
    Request(<<<<"e", "c", "h", "o">>, <<>>>>),
    Request(<<<<"h", "s", "e", "t">>, <<"h">>, <<"f">>, <<"a">>>>),
    Request(<<<<"s", "a", "d", "d">>, <<"s">>, <<"a">>>>) }

WireNext ==
  \/ \E c \in Conns, f \in WireRequests : ClientWrite(c, f)
  \/ \E c \in Conns : PollRead(c, Len(unread[c]))
  \/ \E c \in Conns : PollDecode(c)
  \/ \E c \in Conns : HandleRequest(c)
  \/ \E c \in Conns : SendResponse(c)

SpecWire == ServerInit /\ [][WireNext]_vars

\* SpecZero: as SpecServer, with requests written in the wire form that
\* gives a zero-length bulk string as $0 CRLF CRLF and a zero-length array as
\* *0 CRLF; f is the frame the bytes stand for.
ZeroItem(r, f) == [kind |-> "raw", f |-> f, bytes |-> r]

ZeroItems ==
  { ZeroItem(<<"*", "3", CR, LF, "$", "3", CR, LF, "s", "e", "t", CR, LF,
               "$", "1", CR, LF, "k", CR, LF, "$", "0", CR, LF, CR, LF>>,
             Request(<<<<"s", "e", "t">>, <<"k">>, <<>>>>)),
    ZeroItem(<<"*", "0", CR, LF>>, RespArray(<<>>)),
    ZeroItem(<<"*", "2", CR, LF, "$", "3", CR, LF, "g", "e", "t", CR, LF,
               "$", "1", CR, LF, "k", CR, LF>>,
             Request(<<<<"g", "e", "t">>, <<"k">>>>)) }

ZeroWrite(c, item) ==
  /\ pc[c] = "next" /\ Len(replies[c]) = Len(sent[c])
  /\ SumLen(sent, Conns) < MaxReqs
  /\ unread' = [unread EXCEPT ![c] = unread[c] \o item.bytes]
  /\ sent' = [sent EXCEPT ![c] = Append(sent[c], item)]
  /\ UNCHANGED <<backend, eof, rbuf, readable, pc, cur, resp, written,
                 requests, replies, log>>
  /\ UNCHANGED <<codecVars, lockVars>>

ZeroNext ==
  \/ \E c \in Conns, item \in ZeroItems : ZeroWrite(c, item)
  \/ \E c \in Conns : PollRead(c, Len(unread[c]))
  \/ \E c \in Conns : PollDecode(c)
  \/ \E c \in Conns : HandleRequest(c)
  \/ \E c \in Conns : SendResponse(c)

SpecZero == ServerInit /\ [][ZeroNext]_vars

\* ------------------------------------------------------------------------
\* SpecHash and SpecSet: request_handler is called on decoded requests, one
\* call after the other, each on behalf of a connection.

\* One call of request_handler, as stream_handler makes it: the reply is
\* the frame of the response, or the error as a SimpleError.
Execute(c, f) ==
  /\ Len(log) < MaxOps
  /\ Let(request_handler(f, backend), LAMBDA r :
       /\ backend' = r.done.backend
       /\ log' = Append(log, [conn |-> c, frame |-> f,
                              reply |-> IF r.ok THEN r.done.frame
                                        ELSE SimpleError(<<r.err>>)]))
  /\ UNCHANGED <<unread, eof, rbuf, readable, pc, cur, resp, written, sent,
                 requests, replies>>
  /\ UNCHANGED <<codecVars, lockVars>>

StoreInit == CodecIdle /\ ConnInit /\ LockInit

\* The hash requests: two keys, three fields (inserted out of order), values
\* of two variants, and an HMGET with an argument that is not a BulkString.
HashRequests ==
  { Request(<<<<"h", "s", "e", "t">>, <<"h">>, <<"f">>, <<"a">>>>),
    Request(<<<<"h", "s", "e", "t">>, <<"h">>, <<"f">>, <<"b">>>>),
    Request(<<<<"h", "s", "e", "t">>, <<"h">>, <<"e">>, <<"a">>>>),
    RespArray(<<BulkString(<<"h", "s", "e", "t">>), BulkString(<<"h">>),
                BulkString(<<"e", "f">>), Integer(12)>>),
    Request(<<<<"h", "s", "e", "t">>, <<"g">>, <<"f">>, <<"b">>>>),
    Request(<<<<"h", "g", "e", "t">>, <<"h">>, <<"f">>>>),
    Request(<<<<"h", "g", "e", "t">>, <<"h">>, <<"e">>>>),
    Request(<<<<"h", "g", "e", "t">>, <<"g">>, <<"f">>>>),
    Request(<<<<"h", "g", "e", "t", "a", "l", "l">>, <<"h">>>>),
    Request(<<<<"h", "g", "e", "t", "a", "l", "l">>, <<"g">>>>),
    Request(<<<<"h", "m", "g", "e", "t">>, <<"h">>, <<"e">>, <<"f">>, <<"f">>>>),
    Request(<<<<"h", "m", "g", "e", "t">>, <<"g">>, <<"f">>, <<"e">>>>),
    RespArray(<<BulkString(<<"h", "m", "g", "e", "t">>), BulkString(<<"h">>),
                BulkString(<<"f">>), Integer(1), BulkString(<<"e">>)>>) }

HashNext == \E f \in HashRequests : Execute("c1", f)

SpecHash == StoreInit /\ [][HashNext]_vars

\* The set requests: two keys, a value repeated within one call, and values
\* of two variants with the same text.
SetRequests ==
  { Request(<<<<"s", "a", "d", "d">>, <<"s">>, <<"a">>>>),
    Request(<<<<"s", "a", "d", "d">>, <<"s">>, <<"a">>, <<"b">>, <<"a">>>>),
    RespArray(<<BulkString(<<"s", "a", "d", "d">>), BulkString(<<"s">>),
                SimpleString(<<"a">>)>>),
    Request(<<<<"s", "a", "d", "d">>, <<"t">>, <<"b">>>>),
    Request(<<<<"s", "i", "s", "m", "e", "m", "b", "e", "r">>, <<"s">>, <<"a">>>>),
    RespArray(<<BulkString(<<"s", "i", "s", "m", "e", "m", "b", "e", "r">>),
                BulkString(<<"s">>), SimpleString(<<"a">>)>>),
    Request(<<<<"s", "i", "s", "m", "e", "m", "b", "e", "r">>, <<"t">>, <<"a">>>>),
    Request(<<<<"s", "m", "e", "m", "b", "e", "r", "s">>, <<"s">>>>),
    Request(<<<<"s", "m", "e", "m", "b", "e", "r", "s">>, <<"t">>>>) }

SetNext == \E c \in Conns, f \in SetRequests : Execute(c, f)

SpecSet == StoreInit /\ [][SetNext]_vars

\* ------------------------------------------------------------------------
\* SpecLock: the set commands of the connections run step by step, side by
\* side; which shard of smap a key selects is for its hash to decide.

LockRequests ==
  { Request(<<<<"s", "a", "d", "d">>, <<"s">>, <<"a">>>>),
    Request(<<<<"s", "a", "d", "d">>, <<"s">>, <<"a">>, <<"b">>>>),
    Request(<<<<"s", "a", "d", "d">>, <<"t">>, <<"b">>>>),
    Request(<<<<"s", "i", "s", "m", "e", "m", "b", "e", "r">>, <<"s">>, <<"a">>>>),
    Request(<<<<"s", "m", "e", "m", "b", "e", "r", "s">>, <<"s">>>>),
    Request(<<<<"s", "m", "e", "m", "b", "e", "r", "s">>, <<"t">>>>) }

SetLockInit ==
  /\ CodecIdle /\ ConnInit /\ LockIdle
  /\ shard_of \in [LockKeys -> 1..Shards]

SetLockNext ==
  \/ \E c \in Conns, f \in LockRequests : Begin(c, f)
  \/ \E c \in Conns : SAddEntry(c)
  \/ \E c \in Conns : SAddLock(c)
  \/ \E c \in Conns : SAddPush(c)
  \/ \E c \in Conns : SAddReturn(c)
  \/ \E c \in Conns : ReadGet(c)
  \/ \E c \in Conns : ReadLock(c)
  \/ \E c \in Conns : ReadReturn(c)

SpecLock == SetLockInit /\ [][SetLockNext]_vars

\* SpecLockFair: as SpecLock, with the thread of every connection scheduled
\* again and again: a command whose next step stays possible takes it.
FairBegin(c, f) == Begun < MaxFair /\ Begin(c, f)

FairNext ==
  \/ \E c \in Conns, f \in LockRequests : FairBegin(c, f)
  \/ \E c \in Conns : SAddEntry(c)
  \/ \E c \in Conns : SAddLock(c)
  \/ \E c \in Conns : SAddPush(c)
  \/ \E c \in Conns : SAddReturn(c)
  \/ \E c \in Conns : ReadGet(c)
  \/ \E c \in Conns : ReadLock(c)
  \/ \E c \in Conns : ReadReturn(c)

SpecLockFair ==
  SetLockInit /\ [][FairNext]_vars /\ \A c \in Conns : WF_vars(SetStep(c))


\* ------------------------------------------------------------------------
\* SpecMap: Get, Set, HGet and HSet of the connections run step by step,
\* side by side, on one key of map and one field of one key of hmap.

MapRequests ==
  { Request(<<<<"s", "e", "t">>, <<"k">>, <<"a">>>>),
    RespArray(<<BulkString(<<"s", "e", "t">>), BulkString(<<"k">>), Integer(12)>>),
    Request(<<<<"g", "e", "t">>, <<"k">>>>),
    Request(<<<<"h", "s", "e", "t">>, <<"h">>, <<"f">>, <<"a">>>>),
    RespArray(<<BulkString(<<"h", "s", "e", "t">>), BulkString(<<"h">>),
                BulkString(<<"f">>), Integer(12)>>),
    Request(<<<<"h", "g", "e", "t">>, <<"h">>, <<"f">>>>) }

MapNext ==
  \/ \E c \in Conns, f \in MapRequests : MapBegin(c, f)
  \/ \E c \in Conns : GetLock(c)
  \/ \E c \in Conns : GetReturn(c)
  \/ \E c \in Conns : SetLock(c)
  \/ \E c \in Conns : SetWrite(c)
  \/ \E c \in Conns : SetReturn(c)
  \/ \E c \in Conns : HGetLock(c)
  \/ \E c \in Conns : HGetField(c)
  \/ \E c \in Conns : HGetReturn(c)
  \/ \E c \in Conns : HSetEntry(c)
  \/ \E c \in Conns : HSetLock(c)
  \/ \E c \in Conns : HSetWrite(c)
  \/ \E c \in Conns : HSetReturn(c)

SpecMap == StoreInit /\ [][MapNext]_vars

\* SpecHashLock: HSet, HGetAll and HMGet of the connections run step by
\* step, side by side, on a hash that HSET h f a has created.
HashStart ==
  Backend_hset(Backend_new, <<"h">>, <<"f">>, BulkString(<<"a">>))

HashLockRequests ==
  { Request(<<<<"h", "s", "e", "t">>, <<"h">>, <<"f">>, <<"b">>>>),
    Request(<<<<"h", "s", "e", "t">>, <<"h">>, <<"e">>, <<"a">>>>),
    Request(<<<<"h", "g", "e", "t", "a", "l", "l">>, <<"h">>>>),
    Request(<<<<"h", "g", "e", "t", "a", "l", "l">>, <<"g">>>>),
    Request(<<<<"h", "m", "g", "e", "t">>, <<"h">>, <<"f">>, <<"e">>>>) }

HashLockInit ==
  /\ CodecIdle /\ LockInit
  /\ backend = HashStart
  /\ unread = [c \in Conns |-> <<>>]
  /\ eof = [c \in Conns |-> FALSE]
  /\ rbuf = [c \in Conns |-> <<>>]
  /\ readable = [c \in Conns |-> FALSE]
  /\ pc = [c \in Conns |-> "next"]
  /\ cur = [c \in Conns |-> NoFrame]
  /\ resp = [c \in Conns |-> NoFrame]
  /\ written = [c \in Conns |-> <<>>]
  /\ sent = [c \in Conns |-> <<>>]
  /\ requests = [c \in Conns |-> <<>>]
  /\ replies = [c \in Conns |-> <<>>]
  /\ log = <<>>

HashLockNext ==
  \/ \E c \in Conns, f \in HashLockRequests : HashBegin(c, f)
  \/ \E c \in Conns : HAllLock(c)
  \/ \E c \in Conns : HAllClone(c)
  \/ \E c \in Conns : HAllCloned(c)
  \/ \E c \in Conns : HAllReturn(c)
  \/ \E c \in Conns : HSetEntry(c)
  \/ \E c \in Conns : HSetLock(c)
  \/ \E c \in Conns : HSetWrite(c)
  \/ \E c \in Conns : HSetReturn(c)

SpecHashLock == HashLockInit /\ [][HashLockNext]_vars

\* ------------------------------------------------------------------------
\* SpecCmd: request_handler is called on frames of every shape: each
\* command with too few, the right number of and too many arguments, with a
\* key or a field that is not a BulkString, and frames that are no request.

Keys(n) == [i \in 1..n |-> BulkString(<<"k">>)]

ArityFrames ==
  {RespArray(<<BulkString(name)>> \o Keys(n)) : name \in CommandNames, n \in 0..3}
  \cup {RespArray(<<BulkString(<<"h", "s", "e", "t">>)>> \o Keys(4))}

KeyFrames ==
  {RespArray(<<BulkString(name), Integer(12)>> \o Keys(n)) :
     name \in CommandNames, n \in 0..1}
  \cup {RespArray(<<BulkString(<<"h", "s", "e", "t">>), Integer(12)>> \o Keys(2))}

FieldFrames ==
  {RespArray(<<BulkString(name), BulkString(<<"k">>), Integer(12)>> \o Keys(n)) :
     name \in {<<"h", "g", "e", "t">>, <<"h", "s", "e", "t">>,
               <<"h", "m", "g", "e", "t">>},
     n \in 0..1}
  \cup {RespArray(<<BulkString(<<"h", "m", "g", "e", "t">>), BulkString(<<"k">>),
                    BulkString(<<"k">>), Integer(12), BulkString(<<"k">>)>>)}

ShapeFrames ==
  { Integer(12), RespNull, BulkString(<<"g", "e", "t">>),
    SimpleString(<<"g", "e", "t">>), RespSet(Keys(2)), RespArray(<<>>),
    RespArray(<<Integer(12)>>),
    RespArray(<<SimpleString(<<"g", "e", "t">>), BulkString(<<"k">>)>>),
    RespArray(<<RespArray(<<BulkString(<<"g", "e", "t">>)>>), BulkString(<<"k">>)>>) }

CmdFrames == ArityFrames \cup KeyFrames \cup FieldFrames \cup ShapeFrames

Call(f) == Len(log) < MaxCalls /\ Execute("c1", f)

CmdNext == \E f \in CmdFrames : Call(f)

SpecCmd == StoreInit /\ [][CmdNext]_vars

\* SpecStore: request_handler is called on requests that read, that write
\* and that fail to parse, all on the key k of each of the three key spaces.
ReadRequests ==
  { Request(<<<<"e", "c", "h", "o">>, <<"k">>>>),
    Request(<<<<"g", "e", "t">>, <<"k">>>>),
    Request(<<<<"h", "g", "e", "t">>, <<"k">>, <<"f">>>>),
    Request(<<<<"h", "g", "e", "t", "a", "l", "l">>, <<"k">>>>),
    Request(<<<<"h", "m", "g", "e", "t">>, <<"k">>, <<"f">>, <<"e">>>>),
    Request(<<<<"s", "i", "s", "m", "e", "m", "b", "e", "r">>, <<"k">>, <<"a">>>>),
    Request(<<<<"s", "m", "e", "m", "b", "e", "r", "s">>, <<"k">>>>),
    Request(<<<<"F", "O", "O">>, <<"k">>>>) }

WriteRequests ==
  { Request(<<<<"s", "e", "t">>, <<"k">>, <<"a">>>>),
    Request(<<<<"s", "e", "t">>, <<"k">>, <<"b">>>>),
    Request(<<<<"h", "s", "e", "t">>, <<"k">>, <<"f">>, <<"a">>>>),
    Request(<<<<"s", "a", "d", "d">>, <<"k">>, <<"a">>, <<"b">>>>),
    Request(<<<<"s", "a", "d", "d">>, <<"k">>, <<"b">>, <<"c">>>>) }

\* Requests with too few or too many arguments, a key that is not a
\* BulkString, a frame that is no Array, a name that is not a BulkString,
\* and a key that is not UTF-8.
BadRequests ==
  { Request(<<<<"s", "e", "t">>, <<"k">>>>),
    Request(<<<<"s", "e", "t">>, <<"k">>, <<"a">>, <<"b">>>>),
    Request(<<<<"h", "s", "e", "t">>, <<"k">>, <<"f">>>>),
    Request(<<<<"s", "a", "d", "d">>, <<"k">>>>),
    RespArray(<<BulkString(<<"s", "e", "t">>), Integer(12), BulkString(<<"a">>)>>),
    RespArray(<<BulkString(<<"h", "s", "e", "t">>), BulkString(<<"k">>),
                Integer(12), BulkString(<<"a">>)>>),
    RespArray(<<BulkString(<<"s", "a", "d", "d">>), Integer(12),
                BulkString(<<"a">>)>>),
    Integer(12),
    RespArray(<<Integer(12), BulkString(<<"k">>), BulkString(<<"a">>)>>),
    Request(<<<<"s", "e", "t">>, <<"FF">>, <<"a">>>>),
    Request(<<<<"h", "s", "e", "t">>, <<"FF">>, <<"f">>, <<"a">>>>),
    Request(<<<<"s", "a", "d", "d">>, <<"FF">>, <<"a">>>>) }

StoreNext ==
  \E f \in ReadRequests \cup WriteRequests \cup BadRequests : Execute("c1", f)

SpecStore == StoreInit /\ [][StoreNext]_vars

\* ------------------------------------------------------------------------
\* SpecPoison: the set commands run step by step, and a thread may panic
\* while it holds the guard of a list.

PoisonRequests ==
  { Request(<<<<"s", "a", "d", "d">>, <<"s">>, <<"a">>, <<"b">>>>),
    Request(<<<<"s", "a", "d", "d">>, <<"t">>, <<"b">>>>),
    Request(<<<<"s", "i", "s", "m", "e", "m", "b", "e", "r">>, <<"s">>, <<"a">>>>),
    Request(<<<<"s", "m", "e", "m", "b", "e", "r", "s">>, <<"t">>>>) }

PoisonNext ==
  \/ \E c \in Conns, f \in PoisonRequests : Begin(c, f)
  \/ \E c \in Conns : SAddEntry(c)
  \/ \E c \in Conns : SAddLock(c)
  \/ \E c \in Conns : SAddPush(c)
  \/ \E c \in Conns : SAddReturn(c)
  \/ \E c \in Conns : ReadGet(c)
  \/ \E c \in Conns : ReadLock(c)
  \/ \E c \in Conns : ReadReturn(c)
  \/ \E c \in Conns : Panic(c)

SpecPoison == StoreInit /\ [][PoisonNext]_vars
\* ---------------------------------------------------------------- claims

\* C1: for every frame f of every variant, the empty BulkString and Array
\* included, decoding the bytes of encode(f) succeeds and gives f back.
C1_RoundTrip ==
  (origin.kind = "frame" /\ origin.tail = <<>>) =>
    /\ dec1 # Unset => (dec1.st = "ok" /\ dec1.f = origin.f)
    /\ dec2 # Unset => (dec2.st = "ok" /\ dec2.f = origin.f)

\* C2: on every strict prefix of an encoded frame, decode and expect_length
\* report "not complete": no parse error, no panic, no frame.
C2_PrefixNotComplete ==
  origin.kind = "prefix" =>
    \A r \in {dec1, len1, dec2, len2} : r = Unset \/ r.st = "notcomplete"

\* C3: when decode succeeds it removes from the front exactly expect_length
\* of the same buffer, which is the byte length of the frame, and leaves the
\* bytes after it as they were.
C3_ConsumesExpectLength ==
  /\ (dec1.st = "ok" /\ len1 # Unset) =>
       /\ len1.st = "ok"
       /\ dec1.rest = Slice(input, len1.n)
       /\ origin.kind = "frame" => len1.n = Len(RespFrame_encode(origin.f))
  /\ (dec2.st = "ok" /\ len2 # Unset) =>
       /\ len2.st = "ok"
       /\ dec2.rest = Slice(input, len2.n)
       /\ origin.kind = "frame" => len2.n = Len(RespFrame_encode(origin.f))

\* A buffer no appended byte makes a frame: its first byte is none of the
\* ten prefix bytes, or its length header is not a number or is below -1.
NeverValid(buf) ==
  /\ buf # <<>>
  /\ \/ Head(buf) \notin PrefixBytes
     \/ /\ Head(buf) \in {"$", "*", "%", "~"}
        /\ take_until_crlf(Tail(buf)) >= 0
        /\ LET p == parse_i64(Take(Tail(buf), take_until_crlf(Tail(buf)))) IN
           ~p.ok \/ p.v < -1

\* C4: on a buffer that can never become a valid frame, decode returns a
\* parse error, never "not complete".
C4_MalformedIsError ==
  (origin.kind = "raw" /\ NeverValid(input)) =>
    /\ dec1 = Unset \/ dec1.st = "error"
    /\ dec2 = Unset \/ dec2.st = "error"

\* C5: once the Decoder has been called on a malformed buffer the handler
\* has stopped with an error instead of waiting for more bytes, and nothing
\* is replied to the malformed bytes; "not complete" alone neither closes
\* the connection nor produces a reply.
C5_MalformedCloses ==
  \A c \in Conns :
    /\ (NeverValid(rbuf[c]) /\ ~readable[c]) => pc[c] = "err"
    /\ Len(replies[c]) <= Len(requests[c])
    /\ Len(requests[c]) <= Len(sent[c])

\* C6: a request that decodes but fails command parsing is answered with
\* one SimpleError frame, the handler goes on to send it and then returns to
\* framed.next() for the next request.
C6_CommandErrorReplied ==
  [][\A c \in Conns :
       /\ (pc[c] = "request" /\ pc'[c] # "request"
           /\ ~Command_try_from(cur[c]).ok)
            => /\ pc'[c] = "send"
               /\ resp'[c].t = "Error"
               /\ backend' = backend
       /\ (pc[c] = "send" /\ pc'[c] # "send")
            => /\ pc'[c] = "next"
               /\ replies'[c] = Append(replies[c], resp[c])]_vars

\* C6: a failing request was answered with an error and the request after
\* it with its normal reply.
C6_Witness ==
  \E c \in Conns :
    /\ Len(replies[c]) = 2 /\ pc[c] = "next"
    /\ ~Command_try_from(requests[c][1]).ok /\ replies[c][1].t = "Error"
    /\ Command_try_from(requests[c][2]).ok /\ replies[c][2].t = "BulkString"

\* The calls of request_handler for connection c, in order.
Mine(c) == SelectSeq(log, LAMBDA e : e.conn = c)

\* C7: on a connection the k-th reply sent is the reply to the k-th request
\* decoded; one reply per request; a request is executed only when the
\* replies to all requests before it have been sent.
C7_RepliesInOrder ==
  \A c \in Conns :
    /\ Len(Mine(c)) = Len(requests[c]) - (IF pc[c] = "request" THEN 1 ELSE 0)
    /\ Len(replies[c]) = Len(Mine(c)) - (IF pc[c] = "send" THEN 1 ELSE 0)
    /\ \A k \in 1..Len(Mine(c)) : Mine(c)[k].frame = requests[c][k]
    /\ \A k \in 1..Len(replies[c]) : replies[c][k] = Mine(c)[k].reply

\* C7: the two requests a peer wrote got two different replies, the first
\* of them an error.
C7_Witness ==
  \E c \in Conns :
    /\ Len(replies[c]) = 2 /\ replies[c][1] # replies[c][2]
    /\ replies[c][1].t = "Error"
    /\ requests[c] = <<sent[c][1].f, sent[c][2].f>>

\* C8: a stream that is the concatenation of complete frames F1..Fn, cut
\* into chunks anywhere, makes the framer emit F1..Fn in order: what it has
\* emitted is always the first frames written, it never fails, and at the
\* end of the stream it has emitted them all.
C8_FramerEmitsFrames ==
  \A c \in Conns :
    (\A i \in 1..Len(sent[c]) : sent[c][i].kind = "frame") =>
      /\ Len(requests[c]) <= Len(sent[c])
      /\ \A k \in 1..Len(requests[c]) : requests[c][k] = sent[c][k].f
      /\ pc[c] # "err"
      /\ pc[c] = "ok" => Len(requests[c]) = Len(sent[c])

\* C9: a request whose name is a command's name in any letter case is
\* parsed as that command: ECHO m, Echo m and echo m are all answered with
\* the BulkString m.
C9_NameCaseInsensitive ==
  \A i \in 1..Len(log) :
    (/\ log[i].frame.t = "Array"
     /\ Len(log[i].frame.a) = 2
     /\ log[i].frame.a[1].t = "BulkString"
     /\ log[i].frame.a[2].t = "BulkString"
     /\ to_ascii_lowercase(log[i].frame.a[1].s) = <<"e", "c", "h", "o">>)
      => log[i].reply = BulkString(log[i].frame.a[2].s)

\* The SET requests on key k among the first n calls of request_handler.
SetsBefore(n, k) ==
  {j \in 1..n : /\ log[j].frame.t = "Array"
                /\ Len(log[j].frame.a) = 3
                /\ log[j].frame.a[1] = BulkString(<<"s", "e", "t">>)
                /\ log[j].frame.a[2] = BulkString(k)}

Last(S) == CHOOSE j \in S : \A i \in S : i <= j

\* C10: GET k is answered with the value of the most recent SET on k, with
\* Null when no SET on k has executed; SET is answered with OK.
C10_GetSeesLastSet ==
  \A i \in 1..Len(log) : \A k \in {<<"k">>, <<"a">>} :
    /\ log[i].frame = Request(<<<<"g", "e", "t">>, k>>) =>
         log[i].reply = IF SetsBefore(i - 1, k) = {} THEN RespNull
                        ELSE log[Last(SetsBefore(i - 1, k))].frame.a[3]
    /\ i \in SetsBefore(i, k) => log[i].reply = RESP_OK

\* C10: a GET answered with the value of the second of two SETs on its key.
C10_Witness ==
  \E i \in 1..Len(log) :
    /\ log[i].frame = Request(<<<<"g", "e", "t">>, <<"k">>>>)
    /\ Cardinality(SetsBefore(i - 1, <<"k">>)) = 2
    /\ log[i].reply # log[1].frame.a[3]
    /\ log[i].reply = log[2].frame.a[3]


\* The request f is the command `name` with n arguments, a BulkString key
\* first.
IsCmd(f, name, n) ==
  /\ f.t = "Array" /\ Len(f.a) = n + 1
  /\ f.a[1] = BulkString(name)
  /\ f.a[2].t = "BulkString"

\* The HSET requests on field fd of key k among the first n calls.
HSetsBefore(n, k, fd) ==
  {j \in 1..n : /\ IsCmd(log[j].frame, <<"h", "s", "e", "t">>, 3)
                /\ log[j].frame.a[2] = BulkString(k)
                /\ log[j].frame.a[3] = BulkString(fd)}

\* C11: HSET k f v replies OK, creates the hash of k on first use, sets f
\* to v and leaves every other field of k, every other key and the other
\* maps as they were; HGET k f replies with the value of the most recent
\* HSET k f, Null when there was none, and changes nothing.
C11_HashField ==
  [][Len(log') = Len(log) + 1 =>
       LET e == log'[Len(log')]
           a == e.frame.a
       IN
       /\ (IsCmd(e.frame, <<"h", "s", "e", "t">>, 3) /\ a[3].t = "BulkString")
            => /\ e.reply = RESP_OK
               /\ DOMAIN backend'.hmap = DOMAIN backend.hmap \cup {a[2].s}
               /\ DOMAIN backend'.hmap[a[2].s] =
                    (IF a[2].s \in DOMAIN backend.hmap
                     THEN DOMAIN backend.hmap[a[2].s] ELSE {}) \cup {a[3].s}
               /\ backend'.hmap[a[2].s][a[3].s] = a[4]
               /\ \A k \in DOMAIN backend.hmap : \A fd \in DOMAIN backend.hmap[k] :
                    (k # a[2].s \/ fd # a[3].s)
                      => backend'.hmap[k][fd] = backend.hmap[k][fd]
               /\ \A k \in DOMAIN backend.hmap :
                    k # a[2].s => backend'.hmap[k] = backend.hmap[k]
               /\ backend'.map = backend.map /\ backend'.smap = backend.smap
       /\ (IsCmd(e.frame, <<"h", "g", "e", "t">>, 2) /\ a[3].t = "BulkString")
            => /\ e.reply =
                    IF HSetsBefore(Len(log), a[2].s, a[3].s) = {} THEN RespNull
                    ELSE log[Last(HSetsBefore(Len(log), a[2].s, a[3].s))].frame.a[4]
               /\ backend' = backend]_vars

\* C11: a hash got a second field, and an HGET of that field saw its value
\* while the first field kept its own.
C11_Witness ==
  /\ Len(log) = 3
  /\ IsCmd(log[1].frame, <<"h", "s", "e", "t">>, 3)
  /\ IsCmd(log[2].frame, <<"h", "s", "e", "t">>, 3)
  /\ log[1].frame.a[2] = log[2].frame.a[2]
  /\ log[1].frame.a[3] # log[2].frame.a[3]
  /\ IsCmd(log[3].frame, <<"h", "g", "e", "t">>, 2)
  /\ log[3].frame.a[2] = log[2].frame.a[2]
  /\ log[3].frame.a[3] = log[2].frame.a[3]
  /\ log[3].reply = log[2].frame.a[4]
  /\ backend.hmap[log[1].frame.a[2].s][log[1].frame.a[3].s] = log[1].frame.a[4]


\* The writes to the hash of key k among the calls after the i-th, up to
\* the n-th.
HSetsBetween(i, n, k) ==
  {j \in (i + 1)..n : /\ IsCmd(log[j].frame, <<"h", "s", "e", "t">>, 3)
                      /\ log[j].frame.a[2] = BulkString(k)}

\* C12: HGETALL k, as parsed from a request, replies with an Array of 2n
\* elements for a hash of n fields: each field name as a BulkString followed
\* by its current value, the names in strictly ascending lexicographic
\* order; an absent key gives the empty Array; a call replies as an earlier
\* call on k did when k was not written in between; nothing is changed.
C12_HGetAllSorted ==
  [][Len(log') = Len(log) + 1 =>
       LET e == log'[Len(log')]
           k == e.frame.a[2].s
           fields == IF k \in DOMAIN backend.hmap
                     THEN DOMAIN backend.hmap[k] ELSE {}
           n == Cardinality(fields)
           r == e.reply
       IN
       IsCmd(e.frame, <<"h", "g", "e", "t", "a", "l", "l">>, 1) =>
         /\ r.t = "Array" /\ Len(r.a) = 2 * n
         /\ \A i \in 1..n :
              /\ r.a[2 * i - 1].t = "BulkString"
              /\ r.a[2 * i - 1].s \in fields
              /\ r.a[2 * i] = backend.hmap[k][r.a[2 * i - 1].s]
         /\ \A i \in 1..(n - 1) : StrLess(r.a[2 * i - 1].s, r.a[2 * i + 1].s)
         /\ \A j \in 1..Len(log) :
              (/\ log[j].frame = e.frame
               /\ HSetsBetween(j, Len(log), k) = {}) => log[j].reply = r
         /\ backend' = backend]_vars

\* C12: two fields were set, the greater name first, and HGETALL listed
\* them in ascending order with their values.
C12_Witness ==
  /\ Len(log) = 3
  /\ IsCmd(log[1].frame, <<"h", "s", "e", "t">>, 3)
  /\ IsCmd(log[2].frame, <<"h", "s", "e", "t">>, 3)
  /\ IsCmd(log[3].frame, <<"h", "g", "e", "t", "a", "l", "l">>, 1)
  /\ log[1].frame.a[3].t = "BulkString"
  /\ StrLess(log[2].frame.a[3].s, log[1].frame.a[3].s)
  /\ log[3].reply = RespArray(<<log[2].frame.a[3], log[2].frame.a[4],
                                log[1].frame.a[3], log[1].frame.a[4]>>)

Members(b, k) == IF k \in DOMAIN b.smap THEN b.smap[k] ELSE <<>>

\* Some frame of the sequence fs has the encoding of v.
HasEncoding(fs, v) ==
  \E i \in 1..Len(fs) : RespFrame_encode(fs[i]) = RespFrame_encode(v)

\* C14: SADD k v1..vm replies Integer c and the member list of k grows by
\* exactly c at its end; what is appended are candidates no earlier member
\* and no candidate appended before them encodes as, and every candidate
\* has a member with its encoding afterwards; no other key is changed.
C14_SAddCountsAppended ==
  [][Len(log') = Len(log) + 1 =>
       LET e == log'[Len(log')]
           a == e.frame.a
           k == a[2].s
           old == Members(backend, k)
           new == Members(backend', k)
       IN
       (Len(a) >= 3 /\ IsCmd(e.frame, <<"s", "a", "d", "d">>, Len(a) - 1))
         => /\ e.reply.t = "Integer"
            /\ Len(new) = Len(old) + e.reply.n
            /\ SubSeq(new, 1, Len(old)) = old
            /\ \A i \in (Len(old) + 1)..Len(new) :
                 /\ \E j \in 3..Len(a) : a[j] = new[i]
                 /\ ~HasEncoding(SubSeq(new, 1, i - 1), new[i])
            /\ \A j \in 3..Len(a) : HasEncoding(new, a[j])
            /\ DOMAIN backend'.smap = DOMAIN backend.smap \cup {k}
            /\ \A x \in DOMAIN backend.smap :
                 x # k => backend'.smap[x] = backend.smap[x]
            /\ backend'.map = backend.map /\ backend'.hmap = backend.hmap]_vars

\* C14: a call that offered one value twice and a second value to a key
\* that had a member was answered with 1.
C14_Witness ==
  /\ Len(log) = 2
  /\ log[1].frame = Request(<<<<"s", "a", "d", "d">>, <<"s">>, <<"a">>>>)
  /\ log[1].reply = Integer(1)
  /\ Len(log[2].frame.a) = 5 /\ log[2].frame.a[3] = log[2].frame.a[5]
  /\ log[2].reply = Integer(1)
  /\ Len(Members(backend, <<"s">>)) = 2

\* The SADD requests on key k among the first n calls.
SAddsBefore(n, k) ==
  {x \in 1..n : /\ Len(log[x].frame.a) >= 3
                /\ IsCmd(log[x].frame, <<"s", "a", "d", "d">>,
                         Len(log[x].frame.a) - 1)
                /\ log[x].frame.a[2] = BulkString(k)}

\* The values they offered to k, each as <<call, argument>>.
Offers(n, k) ==
  UNION { {<<j, i>> : i \in 3..Len(log[j].frame.a)} : j \in SAddsBefore(n, k) }

\* The encodings of the values offered to key k among the first n calls.
Offered(n, k) ==
  {RespFrame_encode(log[p[1]].frame.a[p[2]]) : p \in Offers(n, k)}

\* C15: two values are the same member if and only if their encodings are
\* byte-identical: the members of a key are as many as the distinct
\* encodings offered to it, no two members encode alike, and every encoding
\* offered is the encoding of a member.
C15_MemberIsEncoding ==
  \A k \in DOMAIN backend.smap :
    /\ Len(backend.smap[k]) = Cardinality(Offered(Len(log), k))
    /\ \A i, j \in 1..Len(backend.smap[k]) :
         i # j => RespFrame_encode(backend.smap[k][i])
                    # RespFrame_encode(backend.smap[k][j])
    /\ \A x \in Offered(Len(log), k) :
         \E i \in 1..Len(backend.smap[k]) :
           RespFrame_encode(backend.smap[k][i]) = x

\* C15: a BulkString and a SimpleString of the same text are two members,
\* and the BulkString offered again is still one.
C15_Witness ==
  /\ Len(log) = 3
  /\ <<"s">> \in DOMAIN backend.smap
  /\ backend.smap[<<"s">>] = <<BulkString(<<"a">>), SimpleString(<<"a">>)>>
  /\ log[3].frame = Request(<<<<"s", "a", "d", "d">>, <<"s">>, <<"a">>>>)
  /\ log[3].reply = Integer(0)

\* C16: SADD of values that are all members of k already replies 0 and
\* leaves the member list of k as it was, in length, content and order.
C16_SAddDuplicate ==
  [][Len(log') = Len(log) + 1 =>
       LET e == log'[Len(log')]
           a == e.frame.a
       IN
       (/\ Len(a) >= 3 /\ IsCmd(e.frame, <<"s", "a", "d", "d">>, Len(a) - 1)
        /\ \A j \in 3..Len(a) : HasEncoding(Members(backend, a[2].s), a[j]))
         => /\ e.reply = Integer(0)
            /\ backend' = backend]_vars

\* C16: the first of two members was offered again, answered with 0, and
\* the two members are in the order they had.
C16_Witness ==
  /\ Len(log) = 2
  /\ Len(log[1].frame.a) = 5 /\ log[1].reply = Integer(2)
  /\ log[2].frame = Request(<<<<"s", "a", "d", "d">>, <<"s">>, <<"a">>>>)
  /\ log[2].reply = Integer(0)
  /\ Members(backend, <<"s">>) = <<BulkString(<<"a">>), BulkString(<<"b">>)>>

\* The first offer to k of a value that encodes as v does.
FirstOffer(n, k, v) ==
  LET S == {p \in Offers(n, k) :
              RespFrame_encode(log[p[1]].frame.a[p[2]]) = RespFrame_encode(v)}
  IN CHOOSE p \in S :
       \A q \in S : q = p \/ p[1] < q[1] \/ (p[1] = q[1] /\ p[2] < q[2])

\* C17: SMEMBERS k replies with an Array of all the members of k, each
\* exactly once, in the order in which they were first offered by SADD, and
\* with the empty Array when no SADD has written k; nothing is changed.
C17_SMembersInOrder ==
  [][Len(log') = Len(log) + 1 =>
       LET e == log'[Len(log')]
           k == e.frame.a[2].s
           r == e.reply.a
           n == Len(log)
       IN
       IsCmd(e.frame, <<"s", "m", "e", "m", "b", "e", "r", "s">>, 1) =>
         /\ e.reply.t = "Array"
         /\ Len(r) = Cardinality(Offered(n, k))
         /\ {RespFrame_encode(r[i]) : i \in 1..Len(r)} = Offered(n, k)
         /\ \A i, j \in 1..Len(r) :
              i < j =>
                \/ FirstOffer(n, k, r[i])[1] < FirstOffer(n, k, r[j])[1]
                \/ /\ FirstOffer(n, k, r[i])[1] = FirstOffer(n, k, r[j])[1]
                   /\ FirstOffer(n, k, r[i])[2] < FirstOffer(n, k, r[j])[2]
         /\ backend' = backend]_vars

\* C17: SMEMBERS replied with the empty Array on a key never written, and
\* listed the two members of a call that offered the first of them twice,
\* once each and in the order of their insertion.
C17_Witness ==
  /\ Len(log) = 3
  /\ log[1].frame = Request(<<<<"s", "a", "d", "d">>, <<"s">>, <<"a">>, <<"b">>, <<"a">>>>)
  /\ log[2].frame = Request(<<<<"s", "m", "e", "m", "b", "e", "r", "s">>, <<"t">>>>)
  /\ log[2].reply = RespArray(<<>>)
  /\ log[3].frame = Request(<<<<"s", "m", "e", "m", "b", "e", "r", "s">>, <<"s">>>>)
  /\ log[3].reply = RespArray(<<BulkString(<<"a">>), BulkString(<<"b">>)>>)

\* C18: SISMEMBER k v replies Integer 1 when a member of k has the encoding
\* of v and Integer 0 otherwise, 0 for a key that is absent; it replies 1
\* whenever an earlier SADD on k, of any connection, offered a value that
\* encodes as v; nothing is changed.
C18_SIsMember ==
  [][Len(log') = Len(log) + 1 =>
       LET e == log'[Len(log')]
           a == e.frame.a
       IN
       IsCmd(e.frame, <<"s", "i", "s", "m", "e", "m", "b", "e", "r">>, 2) =>
         /\ e.reply = Integer(IF HasEncoding(Members(backend, a[2].s), a[3])
                              THEN 1 ELSE 0)
         /\ RespFrame_encode(a[3]) \in Offered(Len(log), a[2].s)
              => e.reply = Integer(1)
         /\ backend' = backend]_vars

\* C18: after the SADD of one connection, another connection's SISMEMBER of
\* the value was answered with 1 and its SISMEMBER of a SimpleString of the
\* same text with 0.
C18_Witness ==
  /\ Len(log) = 3
  /\ log[1].frame = Request(<<<<"s", "a", "d", "d">>, <<"s">>, <<"a">>>>)
  /\ log[1].conn # log[2].conn
  /\ log[2].frame =
       Request(<<<<"s", "i", "s", "m", "e", "m", "b", "e", "r">>, <<"s">>, <<"a">>>>)
  /\ log[2].reply = Integer(1)
  /\ IsCmd(log[3].frame, <<"s", "i", "s", "m", "e", "m", "b", "e", "r">>, 2)
  /\ log[3].frame.a[3] = SimpleString(<<"a">>)
  /\ log[3].reply = Integer(0)

\* The sum of the counts replied to the calls S of the log.
RECURSIVE SumCounts(_)
SumCounts(S) ==
  IF S = {} THEN 0
  ELSE LET j == CHOOSE x \in S : TRUE IN log[j].reply.n + SumCounts(S \ {j})

\* The count so far of the SAdd calls on key k that are in their loop.
RECURSIVE SumRet(_, _)
SumRet(S, k) ==
  IF S = {} THEN 0
  ELSE LET c == CHOOSE x \in S : TRUE IN
       (IF task[c].at = "loop" /\ task[c].cmd.key = k THEN task[c].ret ELSE 0)
         + SumRet(S \ {c}, k)

\* C19: no two SAdd on one key are in their scan-and-append sections at a
\* time; the counts replied by the SADDs on a key, with the counts so far
\* of those in their section, sum to the length of its member list; and
\* when all have returned that sum is the number of distinct encodings
\* offered, so of the SADDs of one value exactly one counted it as new.
C19_SAddExclusive ==
  /\ \A c, d \in Conns :
       (c # d /\ task[c].at = "loop" /\ task[d].at = "loop")
         => task[c].cmd.key # task[d].cmd.key
  /\ \A k \in LockKeys :
       /\ Len(Members(backend, k)) =
            SumCounts(SAddsBefore(Len(log), k)) + SumRet(Conns, k)
       /\ (\A c \in Conns : task[c].at = "idle")
            => SumCounts(SAddsBefore(Len(log), k))
                 = Cardinality(Offered(Len(log), k))

\* C19: two connections SADD the same value to the same key; one is in its
\* section and has counted the value, the other waits at the entry.
C19_Witness ==
  \E c, d \in Conns :
    /\ task[c].at = "loop" /\ task[c].ret = 1 /\ task[c].values = <<>>
    /\ task[d].at = "entry" /\ task[d].frame = task[c].frame
    /\ Len(task[c].frame.a) = 3

\* C20: a set command is never blocked by the set command of another
\* connection on a different key: when every other command under way is on
\* another key, the command can take its next step.
C20_OtherKeyNeverBlocks ==
  \A c \in Conns :
    (/\ task[c].at # "idle"
     /\ \A d \in Conns \ {c} :
          task[d].at = "idle" \/ task[d].cmd.key # task[c].cmd.key)
      => ENABLED SetStep(c)

\* What a Get, Set, HGet or HSet request reads or writes: the key of map, or
\* the key and field of hmap.
Target(f) ==
  Let(Command_try_from(f).cmd, LAMBDA cmd :
    IF cmd.name \in {"Get", "Set"} THEN <<"map", cmd.key>>
    ELSE <<"hmap", cmd.key, cmd.field>>)

IsWrite(f) == Command_try_from(f).cmd.name \in {"Set", "HSet"}

\* The calls among the first n that wrote what the request f reads.
WritesTo(n, f) ==
  {j \in 1..n : IsWrite(log[j].frame) /\ Target(log[j].frame) = Target(f)}

\* C21: a Get or HGet replies Null, and then no write of what it reads had
\* returned when it began, or the whole value of one Set or HSet of what it
\* reads, never a mixture of two; and that write is none that another
\* write, itself returned before the read began, came wholly after.
C21_ReadsAtomic ==
  \A i \in 1..Len(log) :
    ~IsWrite(log[i].frame) =>
      LET W == WritesTo(Len(log), log[i].frame)
          before == {j \in W : j <= log[i].began}
          fresh == {j \in W : /\ log[j].began < i
                              /\ ~\E w \in before : j <= log[w].began}
          under == {c \in Conns : /\ task[c].at # "idle"
                                  /\ IsWrite(task[c].frame)
                                  /\ Target(task[c].frame) = Target(log[i].frame)
                                  /\ task[c].began < i}
      IN \/ log[i].reply = RespNull /\ before = {}
         \/ \E j \in fresh : log[i].reply = Command_try_from(log[j].frame).cmd.value
         \/ \E c \in under : log[i].reply = task[c].cmd.value

\* C21: a read that began while the second write of what it reads was under
\* way, over the value of the first, replies the value of the second.
C21_Witness ==
  /\ Len(log) = 3
  /\ WritesTo(3, log[3].frame) = {1, 2}
  /\ log[1].frame # log[2].frame
  /\ log[3].began = 1
  /\ log[3].reply = Command_try_from(log[2].frame).cmd.value

\* The request f is an Array whose first element is a BulkString that, in
\* any case of its letters, names no supported command.
IsUnknown(f) ==
  /\ f.t = "Array" /\ Len(f.a) >= 1 /\ f.a[1].t = "BulkString"
  /\ to_ascii_lowercase(f.a[1].s) \notin CommandNames

\* C22: the call of request_handler on a request that names no supported
\* command replies OK and leaves the store as it was, and the connection
\* goes on to send the reply and to wait for its next request.
C22_UnknownAcknowledged ==
  [][\A c \in Conns :
       /\ (pc[c] = "request" /\ pc'[c] # "request" /\ IsUnknown(cur[c]))
            => /\ resp'[c] = RESP_OK
               /\ backend' = backend
               /\ pc'[c] = "send"
       /\ (pc[c] = "send" /\ pc'[c] # "send" /\ IsUnknown(cur[c]))
            => /\ pc'[c] = "next"
               /\ replies'[c] = Append(replies[c], RESP_OK)
               /\ written'[c] = written[c] \o <<"+", "O", "K", CR, LF>>]_vars

\* C22: a connection whose SET was followed by a request naming no command
\* has been replied OK to it and then the value to its GET of the key.
C22_Witness ==
  \E c \in Conns :
    /\ Len(requests[c]) = 3 /\ Len(replies[c]) = 3
    /\ Command_try_from(requests[c][1]).cmd.name = "Set"
    /\ IsUnknown(requests[c][2])
    /\ Command_try_from(requests[c][3]).cmd.name = "Get"
    /\ replies[c][2] = RESP_OK
    /\ replies[c][3] = Command_try_from(requests[c][1]).cmd.value

\* The request f is no command: not an Array, an Array of no elements, or
\* an Array whose first element is not a BulkString.
IsNoCommand(f) == f.t # "Array" \/ f.a = <<>> \/ f.a[1].t # "BulkString"

InvalidCommand ==
  { "Invalid command: Command must be an array",
    "Invalid command: Command must have a BulkString as the first argument" }

\* C23: a frame that is not an Array, is an empty Array, or has a first
\* element that is not a BulkString is parsed to no command, Unrecognized
\* included: the call replies an invalid-command error, not OK, and leaves
\* the store as it was.
C23_NoCommandRejected ==
  [][Len(log') = Len(log) + 1 =>
       LET e == log'[Len(log')] IN
       IsNoCommand(e.frame)
         => /\ ~Command_try_from(e.frame).ok
            /\ Command_try_from(e.frame).err \in InvalidCommand
            /\ \E m \in InvalidCommand : e.reply = SimpleError(<<m>>)
            /\ e.reply # RESP_OK
            /\ backend' = backend]_vars

\* C23: an empty Array and then an Array that starts with a SimpleString
\* have been replied to with errors.
C23_Witness ==
  /\ Len(log) = 2
  /\ log[1].frame = RespArray(<<>>)
  /\ log[2].frame.t = "Array" /\ log[2].frame.a # <<>>
  /\ log[2].frame.a[1].t = "SimpleString"
  /\ log[1].reply.t = "Error" /\ log[2].reply.t = "Error"

\* The number of arguments after its name that each command requires, and
\* the commands that take that number or more.
Required ==
  [name \in CommandNames |->
     CASE name \in {<<"e", "c", "h", "o">>, <<"g", "e", "t">>,
                    <<"h", "g", "e", "t", "a", "l", "l">>,
                    <<"s", "m", "e", "m", "b", "e", "r", "s">>} -> 1
       [] name = <<"h", "s", "e", "t">> -> 3
       [] OTHER -> 2]

AtLeast == {<<"h", "m", "g", "e", "t">>, <<"s", "a", "d", "d">>}

ArgumentCount == "Invalid argument: command must have exactly n argument"

\* C24: a request that names a command with a number of arguments other
\* than the command requires (fewer, for HMGet and SAdd) is parsed to no
\* Command, whatever its arguments are: the error is the argument-count
\* error with the name of the command and the required number, it is
\* replied, and the store is as it was; a request with the required number
\* of arguments is not answered with that error.
C24_ArityEnforced ==
  [][Len(log') = Len(log) + 1 =>
       LET e == log'[Len(log')] IN
       (~IsNoCommand(e.frame) /\ e.frame.a[1].s \in CommandNames) =>
         LET name == e.frame.a[1].s
             n == Len(e.frame.a) - 1
             r == Command_try_from(e.frame)
         IN IF (name \in AtLeast /\ n >= Required[name]) \/ n = Required[name]
            THEN r.err # ArgumentCount /\ e.reply # SimpleError(<<ArgumentCount>>)
            ELSE /\ ~r.ok /\ r.err = ArgumentCount
                 /\ r.names = <<name>> /\ r.n = Required[name]
                 /\ e.reply = SimpleError(<<ArgumentCount>>)
                 /\ backend' = backend]_vars

\* C24: a GET with two arguments, the first of them no BulkString, has been
\* replied the argument-count error, and an HMGET with three arguments has
\* been replied an Array.
C24_Witness ==
  /\ Len(log) = 2
  /\ log[1].frame = RespArray(<<BulkString(<<"g", "e", "t">>), Integer(12),
                                BulkString(<<"k">>)>>)
  /\ log[1].reply = SimpleError(<<ArgumentCount>>)
  /\ log[2].frame = RespArray(<<BulkString(<<"h", "m", "g", "e", "t">>)>> \o Keys(3))
  /\ log[2].reply.t = "Array"

\* The positions in the request f, which names a command, of its key and of
\* its field arguments.
TextualArgs(f) ==
  {2} \cup (CASE f.a[1].s \in {<<"h", "g", "e", "t">>, <<"h", "s", "e", "t">>} -> {3}
              [] f.a[1].s = <<"h", "m", "g", "e", "t">> -> 3..Len(f.a)
              [] OTHER -> {})

InvalidArgument ==
  { "Invalid argument: Invalid key", "Invalid argument: Invalid key or value",
    "Invalid argument: Invalid key or field",
    "Invalid argument: Invalid key or field or value",
    "Invalid argument: Invalid key or fields",
    "Invalid argument: Invalid key or values" }

\* C25: a request that names a command, with the number of arguments it
\* requires, and whose key or one of whose field arguments is not a
\* BulkString is parsed to no Command: the invalid-argument error is
\* replied and the store is as it was.
C25_NonBulkRejected ==
  [][Len(log') = Len(log) + 1 =>
       LET e == log'[Len(log')] IN
       (/\ ~IsNoCommand(e.frame) /\ e.frame.a[1].s \in CommandNames
        /\ Command_try_from(e.frame).err # ArgumentCount
        /\ \E i \in TextualArgs(e.frame) : e.frame.a[i].t # "BulkString")
         => /\ ~Command_try_from(e.frame).ok
            /\ \E m \in InvalidArgument : e.reply = SimpleError(<<m>>)
            /\ backend' = backend]_vars

\* C26: the step of SAdd, Sismember or SMembers at the lock of a list whose
\* Mutex is poisoned ends the command with the reply Error "Internal server
\* error", the store as it was and the connection free for its next
\* request; and no step changes the list of a key whose Mutex is poisoned.
C26_PoisonedLockReplied ==
  [][/\ \A c \in Conns :
          (/\ task[c].at \in {"lock", "rlock"}
           /\ mutex[task[c].cmd.key] = "poisoned"
           /\ task'[c] # task[c])
            => /\ log' = Append(log, [conn |-> c, frame |-> task[c].frame,
                                      reply |-> SimpleError(<<InternalServerError>>)])
               /\ backend' = backend
               /\ task'[c] = NoTask
     /\ \A k \in LockKeys :
          mutex[k] = "poisoned"
            => /\ mutex'[k] = "poisoned"
               /\ Members(backend', k) = Members(backend, k)]_vars

\* C26: a connection was replied the error to its SADD on a key whose lock
\* is poisoned, with one member in the list, and then the members of
\* another key to its next request.
C26_Witness ==
  /\ Len(log) = 2
  /\ log[1].conn = log[2].conn
  /\ Command_try_from(log[1].frame).cmd.name = "SAdd"
  /\ log[1].reply = SimpleError(<<InternalServerError>>)
  /\ Len(Members(backend, Command_try_from(log[1].frame).cmd.key)) = 1
  /\ log[2].reply.t = "Array"
  /\ Command_try_from(log[2].frame).cmd.key
       # Command_try_from(log[1].frame).cmd.key

\* The decimal digits of the integers and lengths of CodecFrames.
Decimal(n) ==
  CASE n = -1 -> <<"-", "1">>
    [] n = 0 -> <<"0">>
    [] n = 1 -> <<"1">>
    [] n = 2 -> <<"2">>
    [] n = 3 -> <<"3">>
    [] n = 12 -> <<"1", "2">>
    [] n = 1234 -> <<"1", "2", "3", "4">>

\* The bytes of one element within `bytes`, which end with the encodings
\* `all` of the elements: `upto` is the encoding of the elements up to and
\* with it, `elem` its own.
Segment(bytes, all, upto, elem) ==
  SubSeq(bytes, Len(bytes) - Len(all) + Len(upto) - Len(elem) + 1,
         Len(bytes) - Len(all) + Len(upto))

\* In `bytes`, the encoding of f, every Integer at any depth is written as
\* `:`, its decimal digits with `-` before them when it is negative, and
\* CRLF.
RECURSIVE IntegersPlain(_, _)
IntegersPlain(f, bytes) ==
  CASE f.t = "Integer" -> bytes = <<":">> \o Decimal(f.n) \o CRLF
    [] f.t \in {"Array", "Set"} ->
         \A i \in 1..Len(f.a) :
           IntegersPlain(f.a[i],
                         Segment(bytes, encode_all(f.a),
                                 encode_all(SubSeq(f.a, 1, i)),
                                 RespFrame_encode(f.a[i])))
    [] f.t = "Map" ->
         \A i \in 1..Len(f.a) :
           IntegersPlain(f.a[i].a[1],
                         Segment(bytes, encode_entries(f.a),
                                 encode_entries(SubSeq(f.a, 1, i)),
                                 RespFrame_encode(f.a[i].a[1])))
    [] OTHER -> TRUE

AbsentKeyRead(f, b) ==
  \/ /\ f = Request(<<<<"h", "g", "e", "t", "a", "l", "l">>, f.a[2].s>>)
     /\ f.a[2].s \notin DOMAIN b.hmap
  \/ /\ f = Request(<<<<"s", "m", "e", "m", "b", "e", "r", "s">>, f.a[2].s>>)
     /\ f.a[2].s \notin DOMAIN b.smap

\* C29: a BulkString of length 0 is written as $-1 CRLF and an Array of
\* length 0 as *-1 CRLF; the reply to HGETALL or SMEMBERS on an absent key
\* is the Array of length 0, so *-1 CRLF is what the peer receives.
C29_EmptyAsNull ==
  [][\A c \in Conns :
       /\ (pc[c] = "request" /\ pc'[c] = "send"
           /\ cur[c].t = "Array" /\ Len(cur[c].a) = 2
           /\ cur[c].a[2].t = "BulkString" /\ AbsentKeyRead(cur[c], backend))
            => resp'[c] = RespArray(<<>>)
       /\ (pc[c] = "send" /\ pc'[c] = "next")
            => /\ resp[c] = RespArray(<<>>)
                    => written'[c] = written[c] \o <<"*", "-", "1", CR, LF>>
               /\ resp[c] = BulkString(<<>>)
                    => written'[c] = written[c] \o <<"$", "-", "1", CR, LF>>]_vars

\* C29: a peer has received the replies to HGETALL on an absent key and to
\* ECHO of the empty string.
C29_Witness ==
  /\ requests["c1"] = <<Request(<<<<"h", "g", "e", "t", "a", "l", "l">>, <<"h">>>>),
                        Request(<<<<"e", "c", "h", "o">>, <<>>>>)>>
  /\ written["c1"] = <<"*", "-", "1", CR, LF, "$", "-", "1", CR, LF>>

\* The decoder result r is the Array or Set f: as many elements as f has, in
\* the order of the wire.
DecodedInOrder(r, f) ==
  r # Unset =>
    /\ r.st = "ok"
    /\ r.f.t = f.t
    /\ Len(r.f.a) = Len(f.a)
    /\ \A i \in 1..Len(f.a) : r.f.a[i] = f.a[i]

\* C30: decoding the bytes of an Array or Set of n elements gives exactly
\* its n elements in wire order, whatever the variants of the elements, a
\* Boolean or Null followed by further elements and an Array nested in a
\* Set included; ~2 *2 :+1234 #t $5 world decodes to Set[Array[Integer
\* 1234, Boolean true], BulkString "world"].
C30_ElementsInOrder ==
  /\ (/\ origin.kind = "frame" /\ origin.tail = <<>>
      /\ origin.f.t \in {"Array", "Set"} /\ Len(origin.f.a) >= 1)
       => DecodedInOrder(dec1, origin.f) /\ DecodedInOrder(dec2, origin.f)
  /\ (/\ origin.kind = "raw" /\ origin.tail = <<>>
      /\ input = <<"~", "2", CR, LF, "*", "2", CR, LF, ":", "+", "1", "2", "3",
                   "4", CR, LF, "#", "t", CR, LF, "$", "5", CR, LF, "w", "o",
                   "r", "l", "d", CR, LF>>)
       => DecodedInOrder(dec1, TestSet) /\ DecodedInOrder(dec2, TestSet)

\* C31: when decode reports "not complete" it leaves the buffer as it was,
\* so that decoding again once the rest of the frame has been appended
\* gives what decoding the whole frame gives.
C31_NotCompleteKeepsBuffer ==
  /\ dec1.st = "notcomplete" =>
       /\ dec1.rest = input
       /\ origin.kind = "prefix" =>
            RespFrame_decode(dec1.rest \o Slice(RespFrame_encode(origin.f),
                                                Len(input)))
              = RespFrame_decode(RespFrame_encode(origin.f))
  /\ dec2.st = "notcomplete" =>
       /\ dec2.rest = input
       /\ origin.kind = "prefix" =>
            RespFrameV2_decode(dec2.rest \o Slice(RespFrame_encode(origin.f),
                                                  Len(input)))
              = RespFrameV2_decode(RespFrame_encode(origin.f))

\* C31: both decoders have reported "not complete" on a bulk string whose
\* header has arrived and whose data has not.
C31_Witness ==
  /\ origin.kind = "prefix" /\ origin.f = BulkString(<<"a">>)
  /\ input = <<"$", "1", CR, LF>>
  /\ dec1.st = "notcomplete" /\ dec2.st = "notcomplete"

\* The request f is Echo, Get, HGet, HGetAll, HMGet, SIsMember or SMembers,
\* or names no supported command.
IsRead(f) ==
  /\ f.t = "Array" /\ Len(f.a) >= 1 /\ f.a[1].t = "BulkString"
  /\ to_ascii_lowercase(f.a[1].s)
       \notin {<<"s", "e", "t">>, <<"h", "s", "e", "t">>, <<"s", "a", "d", "d">>}

\* C32: a call of Echo, Get, HGet, HGetAll, HMGet, SIsMember, SMembers or
\* Unrecognized leaves map, hmap and smap as they were: a key that is
\* absent stays absent from each of them.
C32_ReadsLeaveStore ==
  [][(Len(log') = Len(log) + 1 /\ IsRead(log'[Len(log')].frame))
       => backend' = backend]_vars

\* C32: GET and HGETALL on the key before any write, then, after SADD on it,
\* the key is in smap alone.
C32_Witness ==
  /\ Len(log) = 3
  /\ log[1].frame = Request(<<<<"g", "e", "t">>, <<"k">>>>)
  /\ log[1].reply = RespNull
  /\ log[2].frame = Request(<<<<"h", "g", "e", "t", "a", "l", "l">>, <<"k">>>>)
  /\ log[3].frame.a[1] = BulkString(<<"s", "a", "d", "d">>)
  /\ DOMAIN backend.smap = {<<"k">>}
  /\ DOMAIN backend.map = {} /\ DOMAIN backend.hmap = {}

\* C33: no step takes a key out of map, hmap or smap, and the member list
\* of a key before a step is a prefix of its list after the step.
C33_NothingRemoved ==
  [][/\ DOMAIN backend.map \subseteq DOMAIN backend'.map
     /\ DOMAIN backend.hmap \subseteq DOMAIN backend'.hmap
     /\ DOMAIN backend.smap \subseteq DOMAIN backend'.smap
     /\ \A k \in DOMAIN backend.smap :
          /\ Len(backend.smap[k]) <= Len(backend'.smap[k])
          /\ SubSeq(backend'.smap[k], 1, Len(backend.smap[k]))
               = backend.smap[k]]_vars

\* C33: the key k is in the three key spaces, its value overwritten and its
\* member list grown by a second SADD.
C33_Witness ==
  /\ <<"k">> \in DOMAIN backend.map /\ <<"k">> \in DOMAIN backend.smap
  /\ backend.smap[<<"k">>]
       = <<BulkString(<<"a">>), BulkString(<<"b">>), BulkString(<<"c">>)>>
  /\ Len(log) = 3

\* C34: a request that fails command parsing is answered with an error and
\* leaves map, hmap and smap as they were.
C34_ParseFailureNoWrite ==
  [][(Len(log') = Len(log) + 1 /\ log'[Len(log')].frame \in BadRequests)
       => /\ log'[Len(log')].reply.t = "Error"
          /\ backend' = backend]_vars

\* C34: after SET k a, a SET on a key that is not UTF-8 and an HSET short of
\* an argument have been answered with errors.
C34_Witness ==
  /\ Len(log) = 3
  /\ log[1].frame = Request(<<<<"s", "e", "t">>, <<"k">>, <<"a">>>>)
  /\ log[2].frame = Request(<<<<"s", "e", "t">>, <<"FF">>, <<"a">>>>)
  /\ log[3].frame = Request(<<<<"h", "s", "e", "t">>, <<"k">>, <<"f">>>>)
  /\ log[2].reply.t = "Error" /\ log[3].reply.t = "Error"
  /\ backend.map = (<<"k">> :> BulkString(<<"a">>))

\* C35: in every state, whatever the interleaving of the SADDs of the
\* connections, no member list holds two elements with the same encoding.
C35_NoDuplicateMember ==
  \A k \in DOMAIN backend.smap :
    \A i, j \in 1..Len(backend.smap[k]) :
      RespFrame_encode(backend.smap[k][i]) = RespFrame_encode(backend.smap[k][j])
        => i = j

\* C35: a connection's SADD of a value has returned 1, and the SADD of the
\* same value by another connection has scanned the list and counted
\* nothing.
C35_Witness ==
  \E c \in Conns :
    /\ Len(log) = 1 /\ log[1].conn # c /\ log[1].reply = Integer(1)
    /\ task[c].at = "loop" /\ task[c].values = <<>> /\ task[c].ret = 0
    /\ task[c].frame = log[1].frame
    /\ backend.smap[task[c].cmd.key] = <<BulkString(<<"a">>)>>

\* C36: with every connection's thread scheduled fairly, a set command that
\* has begun returns.
C36_SetCommandsReturn ==
  \A c \in Conns : (task[c].at # "idle") ~> (task[c].at = "idle")

\* C36: a connection waits in get() for the shard of its key while the SADD
\* of another connection on that key holds the shard and the Mutex.
C36_Witness ==
  \E c, d \in Conns :
    /\ task[c].at = "loop" /\ task[d].at = "get"
    /\ task[c].cmd.key = task[d].cmd.key
    /\ mutex[task[c].cmd.key] = c
    /\ shards[shard_of[task[c].cmd.key]].w = c

\* The store of SpecHashLock once the first j calls have returned.
RECURSIVE HashAfter(_)
HashAfter(j) ==
  IF j = 0 THEN HashStart
  ELSE IF IsCmd(log[j].frame, <<"h", "s", "e", "t">>, 3)
  THEN Backend_hset(HashAfter(j - 1), log[j].frame.a[2].s, log[j].frame.a[3].s,
                    log[j].frame.a[4])
  ELSE HashAfter(j - 1)

\* C37: the reply of an HGetAll or HMGet is the reply on the hash as it was
\* at one moment between the command's start and its end: after the calls
\* that had returned when it began, or after some more of those that
\* returned before it did.
C37_HashSnapshot ==
  \A i \in 1..Len(log) :
    Command_try_from(log[i].frame).cmd.name \in {"HGetAll", "HMGet"} =>
      \E j \in log[i].began..(i - 1) :
        log[i].reply
          = Command_execute(Command_try_from(log[i].frame).cmd, HashAfter(j)).frame

\* C37: an HMGET that began before two HSETs on its key has returned after
\* both, with the values of the hash as it was between the two.
C37_Witness ==
  /\ Len(log) = 3
  /\ log[3].frame = Request(<<<<"h", "m", "g", "e", "t">>, <<"h">>, <<"f">>, <<"e">>>>)
  /\ log[3].began = 0
  /\ log[1].frame.a[1] = BulkString(<<"h", "s", "e", "t">>)
  /\ log[2].frame.a[1] = BulkString(<<"h", "s", "e", "t">>)
  /\ log[1].frame # log[2].frame
  /\ log[3].reply
       = Command_execute(Command_try_from(log[3].frame).cmd, HashAfter(1)).frame

\* C38: a request with a zero-length bulk string written $0 CRLF CRLF, or
\* the zero-length array *0 CRLF, is decoded as the one frame it stands
\* for, and once the handler waits for bytes again nothing of it is left in
\* the buffer and every request written so far has been answered.
C38_ZeroLengthFramed ==
  \A c \in Conns :
    /\ \A i \in 1..Len(requests[c]) :
         i <= Len(sent[c]) /\ requests[c][i] = sent[c][i].f
    /\ (pc[c] = "next" /\ ~readable[c] /\ unread[c] = <<>>)
         => (rbuf[c] = <<>> /\ Len(replies[c]) = Len(sent[c]))

\* C39: on every buffer the two decoders agree: decode gives the same frame
\* and leaves the same bytes, or reports "not complete" with both, or a
\* parse error with both; and so does expect_length, with the same length.
C39_DecodersAgree ==
  /\ (dec1 # Unset /\ dec2 # Unset) =>
       /\ dec1.st = dec2.st
       /\ dec1.st \in {"ok", "notcomplete", "error"}
       /\ dec1.st = "ok" => (dec1.f = dec2.f /\ dec1.rest = dec2.rest)
  /\ (len1 # Unset /\ len2 # Unset) =>
       /\ len1.st = len2.st
       /\ len1.st \in {"ok", "notcomplete", "error"}
       /\ len1.st = "ok" => len1.n = len2.n

\* The decoder result r is Integer(n) with the bytes after the frame left.
DecodedInteger(r, n) ==
  r.st # "unset" => (r.st = "ok" /\ r.f = Integer(n) /\ r.rest = origin.tail)

\* C40: for every i64 n, the least and the greatest included, the bytes of
\* `:`, an optional `+` when n is not negative, the decimal digits of n and
\* CRLF decode to Integer(n), with no overflow and no parse error.
C40_EveryI64Decodes ==
  \A i \in 1..Len(IntCases) :
    (origin.kind = "raw" /\ input = IntCases[i].bytes \o origin.tail)
      => DecodedInteger(dec1, IntCases[i].n) /\ DecodedInteger(dec2, IntCases[i].n)
====
